---- MODULE Spec2Model ----
(***************************************************************************)
(* Smart attendance: token issuance (generate_qr_page), the QR payload     *)
(* codec (generate_qr_code / read_qr_code), the geofence distance          *)
(* (calculate_distance) and the redemption flow of student_app, with the   *)
(* two persisted tables qr_codes and attendance of init_database.          *)
(*                                                                         *)
(* Python floats are modelled as decimal floating-point numbers            *)
(* [m |-> mantissa, e |-> exponent], value m * 10^e, with an 8-digit       *)
(* mantissa; every arithmetic step rounds to that precision, as a float    *)
(* operation rounds to 53 bits.  Python strings are sequences of           *)
(* one-character strings.                                                  *)
(***************************************************************************)
EXTENDS Integers, Sequences, FiniteSets, TLC

VARIABLES now, ticks, qr_codes, images, attendance,
          pc, image, qr_data, form, outcome, distance, distance_line,
          validity, qr_page, codec, geo, staff

(***************************************************************************)
(* Floating-point arithmetic (the float type used by math.* and by         *)
(* st.number_input).                                                       *)
(***************************************************************************)
MantLo == 10^7
MantHi == 10^8
Limb == 10^4

Abs(x) == IF x < 0 THEN -x ELSE x
Sgn(x) == IF x < 0 THEN -1 ELSE IF x = 0 THEN 0 ELSE 1

FZero == [m |-> 0, e |-> 0]

RECURSIVE Norm(_, _)
Norm(m, e) ==
    IF m = 0 THEN FZero
    ELSE IF Abs(m) >= MantHi
         THEN Norm(Sgn(m) * ((Abs(m) + 5) \div 10), e + 1)
    ELSE IF Abs(m) < MantLo
         THEN Norm(m * 10, e - 1)
    ELSE [m |-> m, e |-> e]

FromInt(n) == Norm(n, 0)
FNeg(a) == [m |-> -a.m, e |-> a.e]
FAbs(a) == [m |-> Abs(a.m), e |-> a.e]

\* round(m / 10^d), half away from zero, for m >= 0
ShiftR(m, d) == IF d = 0 THEN m ELSE (m + 5 * 10^(d - 1)) \div 10^d

FAddOrd(a, b) ==
    \* a.e >= b.e, both non-zero; one guard digit is kept
    IF a.e - b.e > 9 THEN a
    ELSE Norm(a.m * 10 + Sgn(b.m) * ShiftR(Abs(b.m) * 10, a.e - b.e), a.e - 1)

FAdd(a, b) ==
    IF a.m = 0 THEN b
    ELSE IF b.m = 0 THEN a
    ELSE IF a.e >= b.e THEN FAddOrd(a, b) ELSE FAddOrd(b, a)

FSub(a, b) == FAdd(a, FNeg(b))

\* The product of two 8-digit mantissas x = x1 * Limb + x0 and
\* y = y1 * Limb + y0 is H * MantHi + L, computed limb by limb so that no
\* intermediate leaves the 32-bit range, then rounded to 8 digits.
MulRound(H, L, s, e) ==
    IF H < MantLo
    THEN Norm(s * (H * 10 + (L + 5 * 10^6) \div MantLo), e + 7)
    ELSE Norm(s * (H + (L + 5 * MantLo) \div MantHi), e + 8)

MulSum(hi, mid, t, s, e) ==
    MulRound(hi + mid \div Limb + t \div MantHi, t % MantHi, s, e)

MulMid(hi, mid, lo, s, e) == MulSum(hi, mid, (mid % Limb) * Limb + lo, s, e)

MulLimbs(x1, x0, y1, y0, s, e) ==
    MulMid(x1 * y1, x1 * y0 + x0 * y1, x0 * y0, s, e)

MulMant(x, y, s, e) ==
    MulLimbs(x \div Limb, x % Limb, y \div Limb, y % Limb, s, e)

FMul(a, b) ==
    IF a.m = 0 \/ b.m = 0 THEN FZero
    ELSE MulMant(Abs(a.m), Abs(b.m), Sgn(a.m) * Sgn(b.m), a.e + b.e)

FSquare(a) == FMul(a, a)

RECURSIVE LongDiv(_, _, _, _)
LongDiv(r, y, q, k) ==
    \* k more quotient digits of r / y appended to q
    IF k = 0 THEN q
    ELSE LongDiv((r % y) * 10, y, q * 10 + r \div y, k - 1)

FDiv(a, b) ==
    \* b # 0 (Python raises ZeroDivisionError otherwise; no caller divides by 0)
    IF a.m = 0 THEN FZero
    ELSE Norm(Sgn(a.m) * Sgn(b.m) * LongDiv(Abs(a.m), Abs(b.m), 0, 9),
              a.e - b.e - 8)

FCmp(a, b) ==
    \* -1, 0, 1 as a < b, a = b, a > b (both normalised)
    IF Sgn(a.m) # Sgn(b.m) THEN (IF Sgn(a.m) < Sgn(b.m) THEN -1 ELSE 1)
    ELSE IF a.m = 0 THEN 0
    ELSE IF a.e # b.e THEN (IF a.e < b.e THEN -Sgn(a.m) ELSE Sgn(a.m))
    ELSE IF a.m < b.m THEN -1 ELSE IF a.m = b.m THEN 0 ELSE 1

FLe(a, b) == FCmp(a, b) <= 0
FGt(a, b) == FCmp(a, b) > 0

RECURSIVE ISqrt(_, _, _)
ISqrt(n, lo, hi) ==
    \* the largest g in lo..hi with g * g <= n
    IF lo >= hi THEN lo
    ELSE LET mid == (lo + hi + 1) \div 2
         IN  IF mid * mid <= n THEN ISqrt(n, mid, hi) ELSE ISqrt(n, lo, mid - 1)

FHalf == [m |-> 5 * MantLo, e |-> -8]

RECURSIVE NewtonSqrt(_, _, _)
NewtonSqrt(a, x, k) ==
    IF k = 0 THEN x
    ELSE NewtonSqrt(a, FMul(FHalf, FAdd(x, FDiv(a, x))), k - 1)

FSqrt(a) ==
    \* math.sqrt for a >= 0
    IF a.m = 0 THEN FZero
    ELSE LET odd == (a.e % 2) # 0
             m2 == IF odd THEN a.m * 10 ELSE a.m
             e2 == IF odd THEN a.e - 1 ELSE a.e
             g == Norm(ISqrt(m2, 1, 31622), e2 \div 2)
         IN  NewtonSqrt(a, g, 4)

FPi == [m |-> 31415927, e |-> -7]
FHalfPi == [m |-> 15707963, e |-> -7]
FDegToRad == [m |-> 17453293, e |-> -9]

radians(x) == FMul(x, FDegToRad)

\* Taylor series: Series(x2, term, sum, k, n) adds the terms k..n to sum,
\* each term made from the one before it; Add takes the new term in.
RECURSIVE SinSeries(_, _, _, _, _)
SinAdd(x2, t, sum, k, n) == SinSeries(x2, t, FAdd(sum, t), k + 1, n)

SinSeries(x2, term, sum, k, n) ==
    \* Taylor terms (-1)^k x^(2k+1) / (2k+1)!
    IF k > n THEN sum
    ELSE SinAdd(x2, FNeg(FDiv(FMul(term, x2), FromInt((2 * k) * (2 * k + 1)))),
                sum, k, n)

sin(x) == SinSeries(FSquare(x), x, x, 1, 11)

RECURSIVE CosSeries(_, _, _, _, _)
CosAdd(x2, t, sum, k, n) == CosSeries(x2, t, FAdd(sum, t), k + 1, n)

CosSeries(x2, term, sum, k, n) ==
    \* Taylor terms (-1)^k x^(2k) / (2k)!
    IF k > n THEN sum
    ELSE CosAdd(x2, FNeg(FDiv(FMul(term, x2), FromInt((2 * k - 1) * (2 * k)))),
                sum, k, n)

cos(x) == CosSeries(FSquare(x), FromInt(1), FromInt(1), 1, 11)

RECURSIVE AtanSeries(_, _, _, _, _)
AtanAdd(t2, p, sum, k, n) ==
    AtanSeries(t2, p, FAdd(sum, FDiv(p, FromInt(2 * k + 1))), k + 1, n)

AtanSeries(t2, pow, sum, k, n) ==
    \* terms (-1)^k t^(2k+1) / (2k+1)
    IF k > n THEN sum ELSE AtanAdd(t2, FNeg(FMul(pow, t2)), sum, k, n)

AtanHalve(t) == FDiv(t, FAdd(FromInt(1), FSqrt(FAdd(FromInt(1), FSquare(t)))))

AtanSmall(u) == AtanSeries(FSquare(u), u, u, 1, 9)

AtanUnit(t) ==
    \* atan for 0 <= t <= 1: two argument halvings, then the series
    FMul(FromInt(4), AtanSmall(AtanHalve(AtanHalve(t))))

atan2(y, x) ==
    \* math.atan2 on the first quadrant (y >= 0, x >= 0): the only quadrant
    \* calculate_distance reaches, both arguments being square roots
    IF y.m = 0 THEN FZero
    ELSE IF x.m = 0 THEN FHalfPi
    ELSE IF FLe(y, x) THEN AtanUnit(FDiv(y, x))
    ELSE FSub(FHalfPi, AtanUnit(FDiv(x, y)))

(***************************************************************************)
(* GeoMath: calculate_distance, the haversine great-circle distance.       *)
(***************************************************************************)
EarthRadius == 6371000

\* a faulty variant of central_angle: the doubling left out
central_angle_halved(a) == atan2(FSqrt(a), FSqrt(FSub(FromInt(1), a)))

\* c = 2 * atan2(sqrt(a), sqrt(1 - a))
central_angle(a) ==
    FMul(FromInt(2), atan2(FSqrt(a), FSqrt(FSub(FromInt(1), a))))

\* a faulty variant of calculate_distance: the cosine of the first latitude
\* taken twice
calculate_distance_skewed(lat1, lon1, lat2, lon2) ==
    LET R == FromInt(EarthRadius)
        phi1 == radians(lat1)
        delta_phi == radians(FSub(lat2, lat1))
        delta_lambda == radians(FSub(lon2, lon1))
        a == FAdd(FSquare(sin(FMul(delta_phi, FHalf))),
                  FMul(FSquare(cos(phi1)),
                       FSquare(sin(FMul(delta_lambda, FHalf)))))
        c == central_angle(a)
    IN  FMul(R, c)

calculate_distance(lat1, lon1, lat2, lon2) ==
    LET R == FromInt(EarthRadius)
        phi1 == radians(lat1)
        phi2 == radians(lat2)
        delta_phi == radians(FSub(lat2, lat1))
        delta_lambda == radians(FSub(lon2, lon1))
        a == FAdd(FSquare(sin(FMul(delta_phi, FHalf))),
                  FMul(FMul(cos(phi1), cos(phi2)),
                       FSquare(sin(FMul(delta_lambda, FHalf)))))
        c == central_angle(a)
    IN  FMul(R, c)

(***************************************************************************)
(* Text.  A Python str is a sequence of characters; a character is a       *)
(* one-character string, except EAcute, which stands for the non-ASCII     *)
(* character U+00E9.                                                       *)
(***************************************************************************)
Quote == "\""
Backslash == "\\"
Newline == "\n"
EAcute == "U+00E9"

DigitChars == <<"0", "1", "2", "3", "4", "5", "6", "7", "8", "9">>
IsDigit(c) == \E i \in 1..10 : DigitChars[i] = c
DigitVal(c) == (CHOOSE i \in 1..10 : DigitChars[i] = c) - 1

RECURSIVE IntToChars(_)
IntToChars(n) ==
    \* str(n) for n >= 0
    IF n < 10 THEN <<DigitChars[n + 1]>>
    ELSE IntToChars(n \div 10) \o <<DigitChars[(n % 10) + 1]>>

RECURSIVE Zeros(_)
Zeros(k) == IF k <= 0 THEN <<>> ELSE <<"0">> \o Zeros(k - 1)

RECURSIVE StripZeros(_, _)
StripZeros(m, e) ==
    \* the shortest mantissa of the same value
    IF m # 0 /\ m % 10 = 0 THEN StripZeros(m \div 10, e + 1)
    ELSE [m |-> m, e |-> e]

Positional(ds, e) ==
    \* the digits ds scaled by 10^e, written with a decimal point
    IF e >= 0 THEN ds \o Zeros(e) \o <<".", "0">>
    ELSE IF Len(ds) > -e
         THEN SubSeq(ds, 1, Len(ds) + e) \o <<".">>
              \o SubSeq(ds, Len(ds) + e + 1, Len(ds))
    ELSE <<"0", ".">> \o Zeros(-e - Len(ds)) \o ds

Exponent(x) ==
    \* "e-05", "e+16": a sign and at least two digits
    <<"e", IF x < 0 THEN "-" ELSE "+">>
        \o (IF Abs(x) < 10 THEN <<"0">> ELSE <<>>) \o IntToChars(Abs(x))

Scientific(ds, x) ==
    <<Head(ds)>> \o (IF Len(ds) > 1 THEN <<".">> \o Tail(ds) ELSE <<>>)
        \o Exponent(x)

\* repr switches to the exponent form when the decimal point would stand
\* more than 16 places right or more than 3 places left of the first digit
ReprText(ds, e) ==
    IF Len(ds) + e > 16 \/ Len(ds) + e < -3
    THEN Scientific(ds, Len(ds) + e - 1)
    ELSE Positional(ds, e)

ReprDigits(z) == ReprText(IntToChars(z.m), z.e)

float_repr(f) ==
    \* repr(float): the shortest digit string that reads back as the same
    \* float
    (IF f.m < 0 THEN <<"-">> ELSE <<>>) \o ReprDigits(StripZeros(Abs(f.m), f.e))

\* q + r / unit rounded to an integer, a half going to the even neighbour
RoundHalfEven(q, r, unit) ==
    IF 2 * r > unit \/ (2 * r = unit /\ q % 2 = 1) THEN q + 1 ELSE q

\* m * 10^e in hundredths, rounded, for m >= 0
Hundredths(m, e) ==
    IF e >= -2 THEN m * 10^(e + 2)
    ELSE IF -2 - e > 8 THEN 0
    ELSE RoundHalfEven(m \div 10^(-2 - e), m % 10^(-2 - e), 10^(-2 - e))

TwoDecimals(n) ==
    IntToChars(n \div 100)
        \o <<".", DigitChars[((n % 100) \div 10) + 1], DigitChars[(n % 10) + 1]>>

format_2f(f) ==
    \* f"{f:.2f}"
    (IF f.m < 0 THEN <<"-">> ELSE <<>>) \o TwoDecimals(Hundredths(Abs(f.m), f.e))

(***************************************************************************)
(* Python values: None, str, float and dict (str keys).  One record shape  *)
(* holds them all; t is the type tag.                                      *)
(***************************************************************************)
EmptyDict == [k \in {} |-> 0]
None == [t |-> "none", s |-> <<>>, f |-> FZero, d |-> EmptyDict]
VStr(s) == [t |-> "str", s |-> s, f |-> FZero, d |-> EmptyDict]
VNum(f) == [t |-> "num", s |-> <<>>, f |-> f, d |-> EmptyDict]
VDict(d) == [t |-> "dict", s |-> <<>>, f |-> FZero, d |-> d]

K_qr_id == <<"q", "r", "_", "i", "d">>
K_subject == <<"s", "u", "b", "j", "e", "c", "t">>
K_period == <<"p", "e", "r", "i", "o", "d">>
K_latitude == <<"l", "a", "t", "i", "t", "u", "d", "e">>
K_longitude == <<"l", "o", "n", "g", "i", "t", "u", "d", "e">>
K_created_at == <<"c", "r", "e", "a", "t", "e", "d", "_", "a", "t">>
K_expires_at == <<"e", "x", "p", "i", "r", "e", "s", "_", "a", "t">>

(***************************************************************************)
(* json.dumps (ensure_ascii, separators ", " and ": ").                    *)
(***************************************************************************)
\* a faulty variant of EscapeChar: the quote and the backslash go out bare
EscapeControlOnly(c) ==
    IF c = Newline THEN <<Backslash, "n">>
    ELSE IF c = EAcute THEN <<Backslash, "u", "0", "0", "e", "9">>
    ELSE <<c>>

EscapeChar(c) ==
    IF c = Quote THEN <<Backslash, Quote>>
    ELSE IF c = Backslash THEN <<Backslash, Backslash>>
    ELSE IF c = Newline THEN <<Backslash, "n">>
    ELSE IF c = EAcute THEN <<Backslash, "u", "0", "0", "e", "9">>
    ELSE <<c>>

RECURSIVE EscapeStr(_)
EscapeStr(s) ==
    IF s = <<>> THEN <<>> ELSE EscapeChar(Head(s)) \o EscapeStr(Tail(s))

DumpStr(s) == <<Quote>> \o EscapeStr(s) \o <<Quote>>

DumpValue(v) == IF v.t = "str" THEN DumpStr(v.s) ELSE float_repr(v.f)

RECURSIVE DumpItems(_)
DumpItems(items) ==
    \* items: the dict's <<key, value>> pairs in insertion order
    IF items = <<>> THEN <<>>
    ELSE DumpStr(items[1][1]) \o <<":", " ">> \o DumpValue(items[1][2])
         \o (IF Len(items) > 1 THEN <<",", " ">> ELSE <<>>)
         \o DumpItems(Tail(items))

json_dumps(items) == <<"{">> \o DumpItems(items) \o <<"}">>

(***************************************************************************)
(* json.loads, for the JSON texts the model handles: an object of string   *)
(* keys with string or number members, a number, or a string.  A parse     *)
(* result is [ok, v, i]: success, the value, the next position.            *)
(***************************************************************************)
Fail == [ok |-> FALSE, v |-> None, i |-> 0]
Ok(v, i) == [ok |-> TRUE, v |-> v, i |-> i]

RECURSIVE SkipWs(_, _)
SkipWs(s, i) ==
    IF i <= Len(s) /\ s[i] \in {" ", Newline} THEN SkipWs(s, i + 1) ELSE i

UnescapeU(s, i) ==
    \* the character of a \uXXXX escape whose hex digits start at i
    IF i + 3 <= Len(s) /\ SubSeq(s, i, i + 3) = <<"0", "0", "e", "9">>
    THEN Ok(VStr(<<EAcute>>), i + 4)
    ELSE Fail

RECURSIVE StrBody(_, _, _)
StrBody(s, i, acc) ==
    \* the characters of a string literal up to its closing quote
    IF i > Len(s) THEN Fail
    ELSE IF s[i] = Quote THEN Ok(VStr(acc), i + 1)
    ELSE IF s[i] = Newline THEN Fail
    ELSE IF s[i] = Backslash
         THEN IF i + 1 > Len(s) THEN Fail
              ELSE IF s[i + 1] \in {Quote, Backslash}
                   THEN StrBody(s, i + 2, Append(acc, s[i + 1]))
              ELSE IF s[i + 1] = "n" THEN StrBody(s, i + 2, Append(acc, Newline))
              ELSE IF s[i + 1] = "u"
                   THEN LET u == UnescapeU(s, i + 2)
                        IN  IF u.ok THEN StrBody(s, u.i, acc \o u.v.s) ELSE Fail
              ELSE Fail
    ELSE StrBody(s, i + 1, Append(acc, s[i]))

ParseStr(s, i) == StrBody(s, i + 1, <<>>)

RECURSIVE DigitRun(_, _, _, _)
DigitRun(s, i, n, k) ==
    \* [n, k, i]: the number read so far, how many digits, the next position
    IF i <= Len(s) /\ IsDigit(s[i])
    THEN DigitRun(s, i + 1, n * 10 + DigitVal(s[i]), k + 1)
    ELSE [n |-> n, k |-> k, i |-> i]

\* A number: an optional "-", the integer digits ip from position i0, an
\* optional "." with the fraction digits fp.
FracMark(r, frac) == [n |-> r.n, k |-> r.k, i |-> r.i, frac |-> frac]

FracRun(s, ip) ==
    IF ip.i <= Len(s) /\ s[ip.i] = "."
    THEN FracMark(DigitRun(s, ip.i + 1, ip.n, 0), TRUE)
    ELSE [n |-> ip.n, k |-> 0, i |-> ip.i, frac |-> FALSE]

\* the exponent part "e", an optional sign, digits: [ok, x, i]
ExpDigits(r, sign) == [ok |-> r.k > 0, x |-> sign * r.n, i |-> r.i]

ExpRun(s, i) ==
    IF i > Len(s) \/ s[i] \notin {"e", "E"} THEN [ok |-> TRUE, x |-> 0, i |-> i]
    ELSE IF i + 1 <= Len(s) /\ s[i + 1] = "-"
         THEN ExpDigits(DigitRun(s, i + 2, 0, 0), -1)
    ELSE IF i + 1 <= Len(s) /\ s[i + 1] = "+"
         THEN ExpDigits(DigitRun(s, i + 2, 0, 0), 1)
    ELSE ExpDigits(DigitRun(s, i + 1, 0, 0), 1)

NumExp(neg, fp, ex) ==
    IF ~ex.ok THEN Fail
    ELSE Ok(VNum(Norm((IF neg THEN -1 ELSE 1) * fp.n, ex.x - fp.k)), ex.i)

NumValue(s, i0, neg, ip, fp) ==
    IF ip.k = 0 \/ (ip.k > 1 /\ s[i0] = "0") \/ (fp.frac /\ fp.k = 0)
    THEN Fail
    ELSE NumExp(neg, fp, ExpRun(s, fp.i))

NumFrac(s, i0, neg, ip) == NumValue(s, i0, neg, ip, FracRun(s, ip))

NumInt(s, i0, neg) == NumFrac(s, i0, neg, DigitRun(s, i0, 0, 0))

ParseNum(s, i) ==
    IF i <= Len(s) /\ s[i] = "-" THEN NumInt(s, i + 1, TRUE)
    ELSE NumInt(s, i, FALSE)

ParseScalar(s, i) ==
    IF i > Len(s) THEN Fail
    ELSE IF s[i] = Quote THEN ParseStr(s, i)
    ELSE IF s[i] = "-" \/ IsDigit(s[i]) THEN ParseNum(s, i)
    ELSE Fail

\* Members of an object from position i (at a key): the key k, the colon
\* at c, the value v, then "}" or "," at j with d2 the members read so far.
\* A repeated key keeps its last value.
RECURSIVE ParseMembers(_, _, _)
MemberEnd(s, j, d2) ==
    IF j > Len(s) THEN Fail
    ELSE IF s[j] = "}" THEN Ok(VDict(d2), j + 1)
    ELSE IF s[j] = "," THEN ParseMembers(s, SkipWs(s, j + 1), d2)
    ELSE Fail

MemberValue(s, k, v, d) ==
    IF ~v.ok THEN Fail
    ELSE MemberEnd(s, SkipWs(s, v.i),
                   [x \in DOMAIN d \cup {k.v.s} |->
                       IF x = k.v.s THEN v.v ELSE d[x]])

MemberColon(s, k, c, d) ==
    IF c > Len(s) \/ s[c] # ":" THEN Fail
    ELSE MemberValue(s, k, ParseScalar(s, SkipWs(s, c + 1)), d)

MemberKey(s, k, d) ==
    IF ~k.ok THEN Fail ELSE MemberColon(s, k, SkipWs(s, k.i), d)

ParseMembers(s, i, d) ==
    IF i > Len(s) \/ s[i] # Quote THEN Fail
    ELSE MemberKey(s, ParseStr(s, i), d)

ObjectFrom(s, j) ==
    IF j <= Len(s) /\ s[j] = "}" THEN Ok(VDict(EmptyDict), j + 1)
    ELSE ParseMembers(s, j, EmptyDict)

ParseObject(s, i) == ObjectFrom(s, SkipWs(s, i + 1))

ParseValue(s, i) ==
    IF i <= Len(s) /\ s[i] = "{" THEN ParseObject(s, i) ELSE ParseScalar(s, i)

WholeText(s, r) ==
    \* r when nothing but whitespace follows the value
    IF r.ok /\ SkipWs(s, r.i) = Len(s) + 1 THEN r ELSE Fail

json_loads(s) ==
    \* the parsed value, or Fail for json.JSONDecodeError
    WholeText(s, ParseValue(s, SkipWs(s, 1)))

(***************************************************************************)
(* datetime.  A datetime is a number of minutes; its ISO text is the day   *)
(* number, "T", and the minute of the day.                                 *)
(***************************************************************************)
MinutesPerDay == 24 * 60

date_isoformat(t) == IntToChars(t \div MinutesPerDay)

isoformat(t) ==
    date_isoformat(t) \o <<"T">> \o IntToChars(t % MinutesPerDay)

IsoParts(s, d, m) ==
    \* d: the digits of the day, m: the digits of the minute
    IF d.k > 0 /\ d.i <= Len(s) /\ s[d.i] = "T" /\ m.k > 0
       /\ m.i = Len(s) + 1 /\ m.n < MinutesPerDay
    THEN [ok |-> TRUE, t |-> d.n * MinutesPerDay + m.n]
    ELSE [ok |-> FALSE, t |-> 0]

IsoDay(s, d) == IsoParts(s, d, DigitRun(s, d.i + 1, 0, 0))

fromisoformat(s) ==
    \* [ok, t]: ok is FALSE for the ValueError of a malformed text
    IsoDay(s, DigitRun(s, 1, 0, 0))

RECURSIVE IndexOf(_, _, _)
IndexOf(s, c, i) ==
    \* the first position >= i of character c in s, or Len(s) + 1
    IF i > Len(s) \/ s[i] = c THEN i ELSE IndexOf(s, c, i + 1)

sql_DATE(ts) ==
    \* SQLite DATE(text): the date part of an ISO timestamp
    SubSeq(ts, 1, IndexOf(ts, "T", 1) - 1)

RECURSIVE lstrip(_)
lstrip(s) == IF s # <<>> /\ Head(s) = " " THEN lstrip(Tail(s)) ELSE s

RECURSIVE rstrip(_)
rstrip(s) ==
    IF s # <<>> /\ s[Len(s)] = " " THEN rstrip(SubSeq(s, 1, Len(s) - 1)) ELSE s

\* a faulty variant of strip: the text as typed
strip_nothing(s) == s

strip(s) == rstrip(lstrip(s))

(***************************************************************************)
(* TokenCodec: generate_qr_code and read_qr_code.  An image is what        *)
(* cv2.QRCodeDetector.detectAndDecode sees in it: whether a code was       *)
(* located (vertices) and the text it carries (data).                      *)
(***************************************************************************)
generate_qr_code(items) == [vertices |-> TRUE, data |-> json_dumps(items)]

\* json.loads(data) inside the try: the value, or None when it raises
LoadedOrNone(r) == IF r.ok THEN r.v ELSE None

read_qr_code(img) ==
    IF img.vertices /\ Len(img.data) > 0
    THEN LoadedOrNone(json_loads(img.data))
    ELSE None

(***************************************************************************)
(* Bounds of the model and the inputs it draws.                            *)
(***************************************************************************)
MaxTokens == 1
MaxRecords == 2
MaxTicks == 1

MinDuration == 5
MaxDuration == 120
GeofenceMeters == 1000

StartTime == 10 * 60
JustPastMinDuration == MinDuration + 1
ClockSteps == {JustPastMinDuration, MinutesPerDay}
ClockValues ==
    {StartTime + a * JustPastMinDuration + b * MinutesPerDay :
        <<a, b>> \in {p \in (0..MaxTicks) \X (0..MaxTicks) : p[1] + p[2] <= MaxTicks}}

Sessions == {"s1", "s2"}
FacultyIds == {"FAC001"}
Uuid(n) == <<"u">> \o IntToChars(n)
Uuids == {Uuid(n) : n \in 1..MaxTokens}
Subjects == {<<"M">>}
Periods == {<<"P", "e", "r", "i", "o", "d", " ", "1">>}
Durations == {MinDuration}
\* both ends of the slider
OfficeDurations == {MinDuration, MaxDuration}

Coord(lat, lon) == [lat |-> lat, lon |-> lon]
DefaultPlace == Coord(Norm(176868, -4), Norm(832185, -4))
\* 1000.0000 m from DefaultPlace in the model's arithmetic
EdgePlace == Coord(Norm(17691437, -6), Norm(83226588, -6))
\* 1000.0001 m from DefaultPlace
OverPlace == Coord(Norm(17688153, -6), Norm(83227832, -6))
Anchors == {DefaultPlace}
Places == {EdgePlace, OverPlace}
\* the scenario's far claimant, (17.70, 83.23)
FarPlace == Coord(Norm(1770, -2), Norm(8323, -2))
FieldPlaces == {DefaultPlace, FarPlace}

Names == {<<"a">>, <<" ", "a">>, <<" ">>}
Rolls == {<<"7">>}
Statuses == {"absent"}
Reasons == {<<"r">>}

Outcomes ==
    {"Unreadable", "InvalidOrExpiredToken", "Expired", "AlreadyMarked",
     "OutOfRange", "Accepted", "StorageFailure"}

(***************************************************************************)
(* The payload dict of generate_qr_page, as its <<key, value>> pairs in    *)
(* insertion order, and the images a student can upload.                   *)
(***************************************************************************)
QrItems(qr_id, subject, period, latitude, longitude, created_at, expires_at) ==
    << <<K_qr_id, VStr(qr_id)>>,
       <<K_subject, VStr(subject)>>,
       <<K_period, VStr(period)>>,
       <<K_latitude, VNum(latitude)>>,
       <<K_longitude, VNum(longitude)>>,
       <<K_created_at, VStr(isoformat(created_at))>>,
       <<K_expires_at, VStr(isoformat(expires_at))>> >>

QrKeys ==
    {K_qr_id, K_subject, K_period, K_latitude, K_longitude, K_created_at,
     K_expires_at}

Without(items, k) == SelectSeq(items, LAMBDA kv : kv[1] # k)

WithValue(items, k, v) ==
    [i \in 1..Len(items) |-> IF items[i][1] = k THEN <<k, v>> ELSE items[i]]

UnissuedId == <<"u", "0">>

NoBarcode == [vertices |-> FALSE, data |-> <<>>]
NotJson == [vertices |-> TRUE, data |-> <<"h", "i">>]
JsonNumber == [vertices |-> TRUE, data |-> <<"5">>]

\* images made from a rendered payload: one without each key, and one
\* naming a token that was never issued
Crafted(items) ==
    {generate_qr_code(Without(items, k)) : k \in QrKeys}
        \cup {generate_qr_code(WithValue(items, K_qr_id, VStr(UnissuedId)))}

\* the payload with its anchor moved to another place
Relocated(items, place) ==
    WithValue(WithValue(items, K_latitude, VNum(place.lat)),
              K_longitude, VNum(place.lon))

\* the payloads generate_qr_page can make; the term has one token more
\* than the other specifications
TermTokens == MaxTokens + 1
AllItems ==
    {QrItems(id, sub, per, a.lat, a.lon, t, t + d) :
        id \in {Uuid(n) : n \in 1..TermTokens}, sub \in Subjects, per \in Periods, a \in Anchors,
        t \in ClockValues, d \in Durations \cup OfficeDurations}

\* the images made from one payload
ImagesOf(it) ==
    {generate_qr_code(it), generate_qr_code(Relocated(it, FarPlace))}
        \cup Crafted(it)

BareImages == {NoBarcode, NotJson, JsonNumber}

AllImages == BareImages \cup UNION {ImagesOf(it) : it \in AllItems}

RECURSIVE SetToSeq(_)
SetToSeq(S) ==
    IF S = {} THEN <<>>
    ELSE LET x == CHOOSE y \in S : TRUE IN <<x>> \o SetToSeq(S \ {x})

\* An uploaded or rendered image file is named by its position in
\* ImageFiles; the state holds file names, the tables hold the contents.
RECURSIVE Flatten(_, _)
Flatten(seqs, i) == IF i > Len(seqs) THEN <<>> ELSE seqs[i] \o Flatten(seqs, i + 1)

ItemSeq == SetToSeq(AllItems)
ImageFiles ==
    SetToSeq(BareImages)
        \o Flatten([i \in 1..Len(ItemSeq) |-> SetToSeq(ImagesOf(ItemSeq[i]))], 1)
Files == 1..Len(ImageFiles)
FileOf == [img \in AllImages |-> CHOOSE i \in Files : ImageFiles[i] = img]

\* the file generate_qr_code renders from each payload, computed once
Rendered == [it \in AllItems |-> FileOf[generate_qr_code(it)]]

\* the files crafted from each rendered file, computed once
CraftedFrom ==
    [i \in {FileOf[generate_qr_code(it)] : it \in AllItems} |->
        {FileOf[c] :
            c \in Crafted(CHOOSE it \in AllItems : generate_qr_code(it) = ImageFiles[i])}]

\* the file made from each rendered file by moving its anchor to FarPlace
RelocatedFrom ==
    [i \in {FileOf[generate_qr_code(it)] : it \in AllItems} |->
        FileOf[generate_qr_code(Relocated(
            CHOOSE it \in AllItems : generate_qr_code(it) = ImageFiles[i], FarPlace))]]

\* read_qr_code(Image.open(file)) of every file, computed once
Decoded == [i \in Files |-> read_qr_code(ImageFiles[i])]

\* calculate_distance between the places of the model, computed once
Distances ==
    [a \in Anchors \cup {FarPlace}, p \in Places \cup FieldPlaces |->
        calculate_distance(a.lat, a.lon, p.lat, p.lon)]

distance_between(lat1, lon1, lat2, lon2) ==
    Distances[Coord(lat1, lon1), Coord(lat2, lon2)]

(***************************************************************************)
(* State.  qr_codes and attendance are the two tables of init_database,    *)
(* rows in id order.  images are the QR images generate_qr_page has        *)
(* rendered.  The other variables are per browser session of student_app:  *)
(* where its current script run stands (pc), the uploaded file, the        *)
(* form's widgets, and what the run has rendered (outcome, the distance    *)
(* line, the validity line).                                               *)
(***************************************************************************)

dbvars == <<qr_codes, images, attendance>>
sessvars == <<pc, image, qr_data, form, outcome, distance, distance_line, validity>>
appvars == <<now, ticks, qr_codes, images, attendance,
             pc, image, qr_data, form, outcome, distance, distance_line,
             validity, qr_page>>
benchvars == <<codec, geo, staff>>
vars == <<appvars, benchvars>>

NoForm ==
    [student_name |-> <<>>, student_roll |-> <<>>, student_lat |-> FZero,
     student_lon |-> FZero]

\* codec is the bench on which the codec runs alone: a token, the image
\* rendered from it, the payload read back
NoToken ==
    [qr_id |-> <<>>, subject |-> <<>>, period |-> <<>>, latitude |-> FZero,
     longitude |-> FZero, created_at |-> 0, expires_at |-> 0]

CodecIdle == [pc |-> "idle", token |-> NoToken, img |-> NoBarcode, payload |-> None]

\* geo is the bench on which calculate_distance runs alone: two places, the
\* distance from a to b, from b to a, and from a to itself
GeoIdle ==
    [pc |-> "idle", a |-> DefaultPlace, b |-> DefaultPlace, ab |-> FZero,
     ba |-> FZero, aa |-> FZero]

\* staff is the browser session of a teacher or administrator: the keys of
\* st.session_state that main() and the pages use (a key that is not set is
\* "" or 0), the value of the edit page's "Student Name" search box, and
\* what the last script run rendered: the page function that main() called,
\* or "ApplicationError", and the record whose edit form is on the page
NewSession ==
    [page |-> "home", faculty_logged_in |-> FALSE, faculty_id |-> "",
     faculty_name |-> "", faculty_role |-> "", faculty_department |-> "",
     edit_record_id |-> 0, search_name |-> <<>>, rendered |-> "home",
     form_for |-> 0]

InitApp ==
    /\ now = StartTime
    /\ ticks = 0
    /\ qr_codes = <<>>
    /\ images = {}
    /\ attendance = <<>>
    /\ pc = [s \in Sessions |-> "idle"]
    /\ image = [s \in Sessions |-> FileOf[NoBarcode]]
    /\ qr_data = [s \in Sessions |-> None]
    /\ form = [s \in Sessions |-> NoForm]
    /\ outcome = [s \in Sessions |-> ""]
    /\ distance = [s \in Sessions |-> FZero]
    /\ distance_line = [s \in Sessions |-> <<>>]
    /\ validity = [s \in Sessions |-> ""]
    /\ qr_page = ""

Init == InitApp /\ codec = CodecIdle /\ geo = GeoIdle /\ staff = NewSession

\* the wall clock advances
Tick(step) ==
    /\ ticks < MaxTicks
    /\ now' = now + step
    /\ ticks' = ticks + 1
    /\ UNCHANGED <<dbvars, sessvars, qr_page, benchvars>>

\* a faulty variant of qr_codes_row: the two timestamps bound to each
\* other's columns
qr_codes_row_swapped(qr_id, subject, period, latitude, longitude, created_at, expires_at, created_by) ==
    [qr_id |-> qr_id, subject |-> subject, period |-> period,
     latitude |-> latitude, longitude |-> longitude,
     created_at |-> isoformat(expires_at), expires_at |-> isoformat(created_at),
     created_by |-> created_by, is_active |-> TRUE]

\* the row of the INSERT at lines 779-781; is_active takes its default
qr_codes_row(qr_id, subject, period, latitude, longitude, created_at, expires_at, created_by) ==
    [qr_id |-> qr_id, subject |-> subject, period |-> period,
     latitude |-> latitude, longitude |-> longitude,
     created_at |-> isoformat(created_at), expires_at |-> isoformat(expires_at),
     created_by |-> created_by, is_active |-> TRUE]

\* a faulty variant of generate_qr_page: INSERT OR REPLACE, a stored qr_id
\* taking the new token's fields
generate_qr_page_replacing(faculty_id, subject, period, latitude, longitude, duration, uuid) ==
    /\ subject # <<>>
    /\ LET items == QrItems(uuid, subject, period, latitude, longitude,
                            now, now + duration)
           row == [qr_id |-> uuid, subject |-> subject, period |-> period,
                   latitude |-> latitude, longitude |-> longitude,
                   created_at |-> isoformat(now),
                   expires_at |-> isoformat(now + duration),
                   created_by |-> faculty_id, is_active |-> TRUE]
       IN  /\ IF \E i \in 1..Len(qr_codes) : qr_codes[i].qr_id = uuid
              THEN qr_codes' = [i \in 1..Len(qr_codes) |->
                        IF qr_codes[i].qr_id = uuid THEN row ELSE qr_codes[i]]
              ELSE Len(qr_codes) < MaxTokens /\ qr_codes' = Append(qr_codes, row)
           /\ images' = images \cup {FileOf[generate_qr_code(items)]}
           /\ qr_page' = "QrShown"
    /\ UNCHANGED <<now, ticks, attendance, sessvars, benchvars>>

\* a faulty variant of generate_qr_page: the code rendered before the
\* INSERT, so that it is on the page when the INSERT raises
generate_qr_page_rendering_first(faculty_id, subject, period, latitude, longitude, duration, uuid) ==
    /\ subject # <<>>
    /\ LET items == QrItems(uuid, subject, period, latitude, longitude,
                            now, now + duration)
           row == qr_codes_row(uuid, subject, period, latitude, longitude,
                               now, now + duration, faculty_id)
       IN  /\ images' = images \cup {Rendered[items]}
           /\ IF \E i \in 1..Len(qr_codes) : qr_codes[i].qr_id = uuid
              THEN qr_page' = "IntegrityError" /\ UNCHANGED qr_codes
              ELSE qr_page' = "QrShown" /\ qr_codes' = Append(qr_codes, row)
    /\ UNCHANGED <<now, ticks, attendance, sessvars, benchvars>>

\* a faulty variant of generate_qr_page: the new token supersedes the
\* stored ones, which it deactivates
generate_qr_page_superseding(faculty_id, subject, period, latitude, longitude, duration, uuid) ==
    /\ subject # <<>>
    /\ LET items == QrItems(uuid, subject, period, latitude, longitude,
                            now, now + duration)
           row == qr_codes_row(uuid, subject, period, latitude, longitude,
                               now, now + duration, faculty_id)
       IN  IF \E i \in 1..Len(qr_codes) : qr_codes[i].qr_id = uuid
           THEN /\ qr_page' = "IntegrityError"
                /\ UNCHANGED <<qr_codes, images>>
           ELSE /\ qr_codes' = Append([i \in 1..Len(qr_codes) |->
                                          [qr_codes[i] EXCEPT !.is_active = FALSE]],
                                      row)
                /\ images' = images \cup {Rendered[items]}
                /\ qr_page' = "QrShown"
    /\ UNCHANGED <<now, ticks, attendance, sessvars, benchvars>>

(***************************************************************************)
(* generate_qr_page: the form submitted with a subject.  uuid is the       *)
(* value uuid.uuid4() returns.  The INSERT raises sqlite3.IntegrityError   *)
(* when qr_id is already stored (qr_id TEXT UNIQUE); the exception leaves  *)
(* the page before anything is stored or rendered, and main() shows it as  *)
(* "Application Error: UNIQUE constraint failed: qr_codes.qr_id".  qr_page *)
(* is what the last submission of the form rendered.                       *)
(***************************************************************************)
generate_qr_page(faculty_id, subject, period, latitude, longitude, duration, uuid) ==
    /\ subject # <<>>
    /\ LET created_at == now
           expires_at == created_at + duration
           items == QrItems(uuid, subject, period, latitude, longitude,
                            created_at, expires_at)
           row == qr_codes_row(uuid, subject, period, latitude, longitude,
                               created_at, expires_at, faculty_id)
       IN  IF \E i \in 1..Len(qr_codes) : qr_codes[i].qr_id = uuid
           THEN /\ qr_page' = "IntegrityError"
                /\ UNCHANGED <<qr_codes, images>>
           ELSE /\ qr_codes' = Append(qr_codes, row)
                /\ images' = images \cup {Rendered[items]}
                /\ qr_page' = "QrShown"
    /\ UNCHANGED <<now, ticks, attendance, sessvars, benchvars>>

\* the administrative action that clears a token's is_active flag
deactivate_qr(i) ==
    /\ i \in 1..Len(qr_codes)
    /\ qr_codes[i].is_active
    /\ qr_codes' = [qr_codes EXCEPT ![i].is_active = FALSE]
    /\ UNCHANGED <<now, ticks, images, attendance, sessvars, qr_page, benchvars>>

\* UPDATE attendance SET status = ?, modified_by = ?, modification_reason = ?
\* WHERE id = ?
update_attendance(record_id, new_status, modification_reason, faculty_id) ==
    [attendance EXCEPT ![record_id] =
        [@ EXCEPT !.status = new_status, !.modified_by = faculty_id,
                  !.modification_reason = modification_reason]]

\* a faulty variant of edit_attendance: the UPDATE without its WHERE id = ?
edit_attendance_everywhere(record_id, new_status, modification_reason, faculty_id) ==
    /\ record_id \in 1..Len(attendance)
    /\ attendance' = [i \in 1..Len(attendance) |->
            [attendance[i] EXCEPT !.status = new_status, !.modified_by = faculty_id,
                                  !.modification_reason = modification_reason]]
    /\ UNCHANGED <<now, ticks, qr_codes, images, sessvars, qr_page, benchvars>>

\* edit_attendance: "Save Changes" on the record with this id
edit_attendance(record_id, new_status, modification_reason, faculty_id) ==
    /\ record_id \in 1..Len(attendance)
    /\ attendance' = update_attendance(record_id, new_status, modification_reason,
                                       faculty_id)
    /\ UNCHANGED <<now, ticks, qr_codes, images, sessvars, qr_page, benchvars>>

(***************************************************************************)
(* student_app, one script run per upload or form submission.              *)
(***************************************************************************)
Truthy(v) ==
    \* Python truth value
    IF v.t = "dict" THEN DOMAIN v.d # {}
    ELSE IF v.t = "num" THEN v.f.m # 0
    ELSE IF v.t = "str" THEN v.s # <<>>
    ELSE FALSE

IsSubstr(k, s) ==
    \E i \in 1..(Len(s) - Len(k) + 1) : SubSeq(s, i, i + Len(k) - 1) = k

FloatOfText(t, r) == [ok |-> r.ok /\ r.i = Len(t) + 1, f |-> r.v.f]

FloatOfStr(t) == FloatOfText(t, ParseNum(t, 1))

to_float(v) ==
    \* float(v): [ok, f]; ok is FALSE when it raises
    IF v.t = "num" THEN [ok |-> TRUE, f |-> v.f]
    ELSE IF v.t = "str" THEN FloatOfStr(strip(v.s))
    ELSE [ok |-> FALSE, f |-> FZero]

\* lines 1119-1131: "" when the run goes on to the database; "Unreadable"
\* for the else branch; "ApplicationError" when an exception leaves
\* student_app (TypeError, KeyError) and main() reports it
scan(qd) ==
    IF ~Truthy(qd) THEN "Unreadable"
    ELSE IF qd.t = "num" THEN "ApplicationError"
    ELSE IF qd.t = "str"
         THEN (IF IsSubstr(K_qr_id, qd.s) THEN "ApplicationError" ELSE "Unreadable")
    ELSE IF K_qr_id \notin DOMAIN qd.d THEN "Unreadable"
    ELSE IF {K_subject, K_period, K_latitude, K_longitude} \subseteq DOMAIN qd.d
         THEN ""
    ELSE "ApplicationError"

\* lines 1132-1139: the validity line shown next to the payload; the bare
\* except turns a missing or malformed expires_at into "checking"
validity_of(expires_at, t) ==
    IF ~expires_at.ok THEN "checking"
    ELSE IF t > expires_at.t THEN "expired" ELSE "valid"

validity_line(qd, t) ==
    IF K_expires_at \in DOMAIN qd.d /\ qd.d[K_expires_at].t = "str"
    THEN validity_of(fromisoformat(qd.d[K_expires_at].s), t)
    ELSE "checking"

\* lines 1114-1139 and 1246-1259: a file is uploaded and the script runs up
\* to the database connection
Upload(s, img) ==
    /\ pc[s] \in {"idle", "done"}
    /\ image' = [image EXCEPT ![s] = img]
    /\ qr_data' = [qr_data EXCEPT ![s] = Decoded[img]]
    /\ outcome' = [outcome EXCEPT ![s] = scan(qr_data'[s])]
    /\ validity' = [validity EXCEPT ![s] =
            IF outcome'[s] = "" THEN validity_line(qr_data'[s], now) ELSE ""]
    /\ pc' = [pc EXCEPT ![s] = IF outcome'[s] = "" THEN "lookup" ELSE "done"]
    /\ form' = [form EXCEPT ![s] = NoForm]
    /\ distance' = [distance EXCEPT ![s] = FZero]
    /\ distance_line' = [distance_line EXCEPT ![s] = <<>>]
    /\ UNCHANGED <<now, ticks, dbvars, qr_page, benchvars>>

\* a faulty variant of active_qr: the lookup without "AND is_active = 1"
stored_qr(qr_id) ==
    {i \in 1..Len(qr_codes) : VStr(qr_codes[i].qr_id) = qr_id}

\* SELECT * FROM qr_codes WHERE qr_id = ? AND is_active = 1
active_qr(qr_id) ==
    {i \in 1..Len(qr_codes) : VStr(qr_codes[i].qr_id) = qr_id /\ qr_codes[i].is_active}

Finish(s, o) ==
    /\ outcome' = [outcome EXCEPT ![s] = o]
    /\ pc' = [pc EXCEPT ![s] = "done"]

\* lines 1142-1171 and 1235-1239.  fault: "connect" when get_db_connection
\* raises (outside the try), "execute" when the SELECT raises.  form keeps
\* what the rest of the run reads: the stripped name and roll, the location
Lookup(s, fault, student_name, student_roll, place, submit_attendance) ==
    /\ pc[s] = "lookup"
    /\ IF fault = "connect"
       THEN Finish(s, "ApplicationError") /\ UNCHANGED form
       ELSE IF fault = "execute"
       THEN Finish(s, "StorageFailure") /\ UNCHANGED form
       ELSE IF active_qr(qr_data[s].d[K_qr_id]) = {}
       THEN Finish(s, "InvalidOrExpiredToken") /\ UNCHANGED form
       ELSE IF ~submit_attendance
       THEN Finish(s, "FormShown") /\ UNCHANGED form
       ELSE IF strip(student_name) = <<>> \/ strip(student_roll) = <<>>
       THEN Finish(s, "MissingDetails") /\ UNCHANGED form
       ELSE /\ form' = [form EXCEPT ![s] =
                    [student_name |-> strip(student_name),
                     student_roll |-> strip(student_roll),
                     student_lat |-> place.lat, student_lon |-> place.lon]]
            /\ pc' = [pc EXCEPT ![s] = "dupcheck"]
            /\ UNCHANGED outcome
    /\ UNCHANGED <<now, ticks, dbvars, image, qr_data, distance, distance_line,
                   validity, qr_page, benchvars>>

\* a faulty variant of existing_count: the count taken over no rows
count_of_none(name, subject, period, today) == 0

\* a faulty variant of existing_count: the rows of every day counted
existing_count_any_day(name, subject, period, today) ==
    Cardinality({i \in 1..Len(attendance) :
        /\ attendance[i].student_name = name
        /\ attendance[i].subject = subject
        /\ attendance[i].period = period})

\* a faulty variant of existing_count: only the rows still present counted
existing_count_present(name, subject, period, today) ==
    Cardinality({i \in 1..Len(attendance) :
        /\ attendance[i].student_name = name
        /\ attendance[i].subject = subject
        /\ attendance[i].period = period
        /\ sql_DATE(attendance[i].timestamp) = today
        /\ attendance[i].status = "present"})

\* a faulty variant of existing_count: the student looked up by roll number
existing_count_by_roll(name, subject, period, today) ==
    Cardinality({i \in 1..Len(attendance) :
        /\ \E s \in Sessions :
              form[s].student_name = name
                  /\ attendance[i].student_roll = form[s].student_roll
        /\ attendance[i].subject = subject
        /\ attendance[i].period = period
        /\ sql_DATE(attendance[i].timestamp) = today})

\* SELECT COUNT(*) FROM attendance WHERE student_name = ? AND subject = ?
\* AND period = ? AND DATE(timestamp) = ?
existing_count(name, subject, period, today) ==
    Cardinality({i \in 1..Len(attendance) :
        /\ attendance[i].student_name = name
        /\ attendance[i].subject = subject
        /\ attendance[i].period = period
        /\ sql_DATE(attendance[i].timestamp) = today})

\* a faulty variant of within_geofence: the boundary left out
strictly_within_geofence(d) == FCmp(d, FromInt(GeofenceMeters)) < 0

\* line 1194: distance <= 1000
within_geofence(d) == FLe(d, FromInt(GeofenceMeters))

\* lines 1172-1194 and 1225-1233
DupCheck(s, fault) ==
    /\ pc[s] = "dupcheck"
    /\ LET qd == qr_data[s].d
           today == date_isoformat(now)
           lat == to_float(qd[K_latitude])
           lon == to_float(qd[K_longitude])
       IN  IF fault
           THEN Finish(s, "StorageFailure") /\ UNCHANGED <<distance, distance_line>>
           ELSE IF existing_count(form[s].student_name, qd[K_subject],
                                  qd[K_period], today) > 0
           THEN Finish(s, "AlreadyMarked") /\ UNCHANGED <<distance, distance_line>>
           ELSE IF ~lat.ok \/ ~lon.ok
           THEN Finish(s, "StorageFailure") /\ UNCHANGED <<distance, distance_line>>
           ELSE /\ distance' = [distance EXCEPT ![s] =
                        distance_between(lat.f, lon.f, form[s].student_lat,
                                         form[s].student_lon)]
                /\ distance_line' =
                        [distance_line EXCEPT ![s] = format_2f(distance'[s])]
                /\ IF within_geofence(distance'[s])
                   THEN pc' = [pc EXCEPT ![s] = "insert"] /\ UNCHANGED outcome
                   ELSE Finish(s, "OutOfRange")
    /\ UNCHANGED <<now, ticks, dbvars, image, qr_data, form, validity, qr_page, benchvars>>

\* a faulty variant of attendance_row: the two pairs of coordinates bound
\* to each other's columns
attendance_row_swapped(s, qd) ==
    [student_name |-> form[s].student_name,
     student_roll |-> form[s].student_roll,
     subject |-> qd[K_subject], period |-> qd[K_period],
     timestamp |-> isoformat(now),
     student_latitude |-> qd[K_latitude].f,
     student_longitude |-> qd[K_longitude].f,
     qr_latitude |-> VNum(form[s].student_lat),
     qr_longitude |-> VNum(form[s].student_lon),
     status |-> "present", marked_by |-> "student_app",
     modified_by |-> "NULL", modification_reason |-> <<>>]

\* the row of the INSERT at lines 1198-1208; the columns it does not name
\* take their defaults
attendance_row(s, qd) ==
    [student_name |-> form[s].student_name,
     student_roll |-> form[s].student_roll,
     subject |-> qd[K_subject], period |-> qd[K_period],
     timestamp |-> isoformat(now),
     student_latitude |-> form[s].student_lat,
     student_longitude |-> form[s].student_lon,
     qr_latitude |-> qd[K_latitude], qr_longitude |-> qd[K_longitude],
     status |-> "present", marked_by |-> "student_app",
     modified_by |-> "NULL", modification_reason |-> <<>>]

\* a faulty variant of Insert: the row stays although the commit failed
InsertWithoutRollback(s, fault) ==
    /\ pc[s] = "insert"
    /\ Len(attendance) < MaxRecords
    /\ attendance' = Append(attendance, attendance_row(s, qr_data[s].d))
    /\ Finish(s, IF fault THEN "StorageFailure" ELSE "Accepted")
    /\ UNCHANGED <<now, ticks, qr_codes, images, image, qr_data, form, distance,
                   distance_line, validity, qr_page, benchvars>>

\* a faulty variant of Insert: the redeemed token made single-use
InsertAndRetire(s, fault) ==
    /\ pc[s] = "insert"
    /\ Len(attendance) < MaxRecords
    /\ IF fault
       THEN Finish(s, "StorageFailure") /\ UNCHANGED <<attendance, qr_codes>>
       ELSE /\ Finish(s, "Accepted")
            /\ attendance' = Append(attendance, attendance_row(s, qr_data[s].d))
            /\ qr_codes' = [i \in 1..Len(qr_codes) |->
                    IF VStr(qr_codes[i].qr_id) = qr_data[s].d[K_qr_id]
                    THEN [qr_codes[i] EXCEPT !.is_active = FALSE]
                    ELSE qr_codes[i]]
    /\ UNCHANGED <<now, ticks, images, image, qr_data, form, distance,
                   distance_line, validity, qr_page, benchvars>>

\* lines 1195-1223: INSERT INTO attendance and commit
Insert(s, fault) ==
    /\ pc[s] = "insert"
    /\ Len(attendance) < MaxRecords
    /\ IF fault
       THEN Finish(s, "StorageFailure") /\ UNCHANGED attendance
       ELSE /\ Finish(s, "Accepted")
            /\ attendance' = Append(attendance, attendance_row(s, qr_data[s].d))
    /\ UNCHANGED <<now, ticks, qr_codes, images, image, qr_data, form, distance,
                   distance_line, validity, qr_page, benchvars>>

(***************************************************************************)
(* main() and the pages of the staff session.  Every click runs the script *)
(* of the page it is on, which sets keys of the session state and calls    *)
(* st.rerun(); the rerun goes through main()'s routing and renders.  A     *)
(* click and the rerun it causes are one step.                             *)
(***************************************************************************)
FacultyPages == {"generate_qr", "view_attendance", "edit_attendance", "analytics"}
AdminTabs == {"generate_qr", "view_attendance", "edit_attendance"}

\* the rows of the faculty table that init_database inserts (two of them)
Accounts ==
    [id \in {"ADMIN001", "FAC001"} |->
        IF id = "ADMIN001"
        THEN [name |-> "Principal Administrator", role |-> "admin",
              department |-> "Administration"]
        ELSE [name |-> "Dr. Smith Johnson", role |-> "faculty",
              department |-> "Mathematics"]]

\* lines 1315-1336: the page function main() calls, or "redirect" for the
\* else branch
route(page, logged_in, role) ==
    IF page = "home" THEN "home"
    ELSE IF page = "faculty_login" THEN "faculty_login"
    ELSE IF page = "faculty_dashboard" /\ logged_in THEN "faculty_dashboard"
    ELSE IF page = "admin_dashboard" /\ logged_in /\ role = "admin"
    THEN "admin_dashboard"
    ELSE IF page \in FacultyPages /\ logged_in THEN page
    ELSE IF page = "student_app" THEN "student_app"
    ELSE "redirect"

\* lines 908-929: the ids the search SELECT returns; the date box at its
\* default (today), the subject box empty
search_results(search_name) ==
    {i \in 1..Len(attendance) :
        /\ search_name # <<>> => IsSubstr(search_name, attendance[i].student_name)
        /\ sql_DATE(attendance[i].timestamp) = date_isoformat(now)}

\* lines 885-1008: a run of edit_attendance.  df[df['id'] == record_id]
\* .iloc[0] raises IndexError when df has no such row; main() shows it as
\* "Application Error" and sets the page to home (lines 1338-1343)
render_edit_attendance(ss, df) ==
    IF df # {} /\ ss.edit_record_id # 0
    THEN IF ss.edit_record_id \in df
         THEN [ss EXCEPT !.rendered = "edit_attendance",
                         !.form_for = ss.edit_record_id]
         ELSE [ss EXCEPT !.rendered = "ApplicationError", !.page = "home",
                         !.form_for = 0]
    ELSE [ss EXCEPT !.rendered = "edit_attendance", !.form_for = 0]

\* a script run that calls page function fn; a page without the search box
\* drops the box's value
render(ss, fn) ==
    IF fn = "redirect"
    THEN [ss EXCEPT !.page = "home", !.rendered = "home", !.search_name = <<>>,
                    !.form_for = 0]
    ELSE IF fn = "edit_attendance"
    THEN render_edit_attendance(ss, search_results(ss.search_name))
    ELSE [ss EXCEPT !.rendered = fn, !.search_name = <<>>, !.form_for = 0]

\* lines 1262-1343: main() on session state ss
main(ss) == render(ss, route(ss.page, ss.faculty_logged_in, ss.faculty_role))

\* a button that sets st.session_state.page: "Faculty/Admin Login" and
\* "Student App" on home, "Back to Home", the dashboards' page buttons,
\* "Back to Dashboard", and "Go to Home" after an error
navigate(target) ==
    /\ \/ staff.rendered = "home" /\ target \in {"faculty_login", "student_app"}
       \/ staff.rendered \in {"faculty_login", "student_app", "ApplicationError"}
             /\ target = "home"
       \/ staff.rendered = "faculty_dashboard" /\ target \in FacultyPages
       \/ staff.rendered = "admin_dashboard" /\ target \in AdminTabs
       \/ /\ staff.rendered \in FacultyPages
          /\ target = IF staff.faculty_role = "admin" THEN "admin_dashboard"
                      ELSE "faculty_dashboard"
    /\ staff' = main([staff EXCEPT !.page = target])
    /\ UNCHANGED <<appvars, codec, geo>>

\* lines 338-380: the login form submitted; verified is whether the
\* account exists, is active and the password matches
faculty_login(faculty_id, verified) ==
    /\ staff.rendered = "faculty_login"
    /\ staff' =
          IF verified /\ faculty_id \in DOMAIN Accounts
          THEN main([staff EXCEPT
                    !.faculty_logged_in = TRUE,
                    !.faculty_id = faculty_id,
                    !.faculty_name = Accounts[faculty_id].name,
                    !.faculty_role = Accounts[faculty_id].role,
                    !.faculty_department = Accounts[faculty_id].department,
                    !.page = IF Accounts[faculty_id].role = "admin"
                             THEN "admin_dashboard" ELSE "faculty_dashboard"])
          ELSE main(staff)
    /\ UNCHANGED <<appvars, codec, geo>>

\* a faulty variant of logout: the role left in the session
logout_keeping_role ==
    /\ staff.rendered \in {"faculty_dashboard", "admin_dashboard"}
    /\ staff' = main([staff EXCEPT
            !.faculty_logged_in = FALSE, !.faculty_id = "", !.faculty_name = "",
            !.faculty_department = "", !.page = "home"])
    /\ UNCHANGED <<appvars, codec, geo>>

\* lines 427-434 and 489-494: "Logout" deletes the five faculty keys;
\* main() sets faculty_logged_in to False again on the rerun
logout ==
    /\ staff.rendered \in {"faculty_dashboard", "admin_dashboard"}
    /\ staff' = main([staff EXCEPT
            !.faculty_logged_in = FALSE, !.faculty_id = "", !.faculty_name = "",
            !.faculty_role = "", !.faculty_department = "", !.page = "home"])
    /\ UNCHANGED <<appvars, codec, geo>>

\* text typed into "Student Name" on the edit page
search(search_name) ==
    /\ staff.rendered = "edit_attendance"
    /\ search_name # staff.search_name
    /\ staff' = main([staff EXCEPT !.search_name = search_name])
    /\ UNCHANGED <<appvars, codec, geo>>

\* lines 944-946: the "Edit" button of a listed record
select_record(record_id) ==
    /\ staff.rendered = "edit_attendance"
    /\ record_id \in search_results(staff.search_name)
    /\ staff' = main([staff EXCEPT !.edit_record_id = record_id])
    /\ UNCHANGED <<appvars, codec, geo>>

\* lines 981-1002: "Save Changes" and "Cancel" of the edit form.  The run
\* reaches the form as render_edit_attendance does.
submit_edit_form(save, new_status, modification_reason) ==
    /\ staff.rendered = "edit_attendance"
    /\ staff.form_for # 0
    /\ IF staff.edit_record_id \in search_results(staff.search_name)
       THEN /\ staff' = main([staff EXCEPT !.edit_record_id = 0])
            /\ attendance' =
                  IF save
                  THEN update_attendance(staff.edit_record_id, new_status,
                                         modification_reason, staff.faculty_id)
                  ELSE attendance
       ELSE /\ staff' = main(staff)
            /\ UNCHANGED attendance
    /\ UNCHANGED <<now, ticks, qr_codes, images, sessvars, qr_page, codec, geo>>

\* What uuid.uuid4() can return: an id no row holds (which one makes no
\* difference, so the next unused one stands for them all), or one a row
\* holds already.  The model stops drawing unused ids when room tokens are
\* stored.
unused_uuid4(room) == IF Len(qr_codes) < room THEN {Uuid(Len(qr_codes) + 1)} ELSE {}

fresh_uuid4 == unused_uuid4(MaxTokens)

uuid4 == fresh_uuid4 \cup {qr_codes[i].qr_id : i \in 1..Len(qr_codes)}

\* every image a student can upload: the rendered ones, those crafted from
\* them, an image without a code, and codes that carry no payload object
Uploadable ==
    {FileOf[NoBarcode], FileOf[NotJson], FileOf[JsonNumber]}
        \cup images
        \cup UNION {CraftedFrom[i] : i \in images}

\* In Next every uuid4() is fresh; NextOffice has the collisions.
Next ==
    \/ \E step \in ClockSteps : Tick(step)
    \/ \E f \in FacultyIds, sub \in Subjects, per \in Periods, a \in Anchors,
          d \in Durations, u \in fresh_uuid4 :
           generate_qr_page(f, sub, per, a.lat, a.lon, d, u)
    \/ \E i \in 1..MaxTokens : deactivate_qr(i)
    \/ \E i \in 1..MaxRecords, st \in Statuses, r \in Reasons, f \in FacultyIds :
           edit_attendance(i, st, r, f)
    \/ \E img \in Uploadable : Upload("s1", img)
    \/ \E fault \in {"none", "connect", "execute"}, n \in Names, r \in Rolls,
          p \in Places, sub \in BOOLEAN : Lookup("s1", fault, n, r, p, sub)
    \/ \E fault \in BOOLEAN : DupCheck("s1", fault)
    \/ \E fault \in BOOLEAN : Insert("s1", fault)

Spec == Init /\ [][Next]_vars

(***************************************************************************)
(* Two students at once.  Every Streamlit session runs student_app in its  *)
(* own thread with its own connection, so the statements of two script     *)
(* runs interleave.  Each student makes one attempt, with a rendered       *)
(* image, while the storage works and the clock stands.                    *)
(***************************************************************************)
RaceNames == {<<"a">>, <<"b">>}

NextRace ==
    \/ \E f \in FacultyIds, sub \in Subjects, per \in Periods, a \in Anchors,
          d \in Durations, u \in uuid4 :
           generate_qr_page(f, sub, per, a.lat, a.lon, d, u)
    \/ \E i \in 1..MaxRecords, st \in Statuses, r \in Reasons, f \in FacultyIds :
           edit_attendance(i, st, r, f)
    \/ \E s \in Sessions, img \in images : pc[s] = "idle" /\ Upload(s, img)
    \/ \E s \in Sessions, n \in RaceNames, r \in Rolls, p \in Places :
           Lookup(s, "none", n, r, p, TRUE)
    \/ \E s \in Sessions : DupCheck(s, FALSE)
    \/ \E s \in Sessions : Insert(s, FALSE)

SpecRace == Init /\ [][NextRace]_vars

(***************************************************************************)
(* The field: one student, the storage working and the clock standing,     *)
(* who stands at the anchor or at the scenario's far place and uploads a   *)
(* rendered image or one whose payload names the stored token at another   *)
(* anchor.                                                                 *)
(***************************************************************************)
FieldUploadable == images \cup {RelocatedFrom[i] : i \in images}

NextField ==
    \/ \E f \in FacultyIds, sub \in Subjects, per \in Periods, a \in Anchors,
          d \in Durations, u \in uuid4 :
           generate_qr_page(f, sub, per, a.lat, a.lon, d, u)
    \/ \E i \in 1..MaxRecords, st \in Statuses, r \in Reasons, f \in FacultyIds :
           edit_attendance(i, st, r, f)
    \/ \E img \in FieldUploadable : Upload("s1", img)
    \/ \E n \in RaceNames, r \in Rolls, p \in FieldPlaces :
           Lookup("s1", "none", n, r, p, TRUE)
    \/ DupCheck("s1", FALSE)
    \/ Insert("s1", FALSE)

SpecField == Init /\ [][NextField]_vars

(***************************************************************************)
(* The office: the faculty and admin pages with their inputs (both ends of *)
(* the duration slider, uuid4() returning a stored id, every status, two   *)
(* users each giving a reason), and two students redeeming so that there   *)
(* are records to edit.  The clock stands.                                 *)
(***************************************************************************)
OfficeStatuses == {"present", "absent", "late"}
OfficeEdits ==
    {[faculty_id |-> "FAC001", modification_reason |-> <<"r">>],
     [faculty_id |-> "ADMIN001", modification_reason |-> <<"t">>]}

NextOffice ==
    \/ \E f \in FacultyIds, sub \in Subjects, per \in Periods, a \in Anchors,
          d \in OfficeDurations, u \in uuid4 :
           generate_qr_page(f, sub, per, a.lat, a.lon, d, u)
    \/ \E i \in 1..MaxTokens : deactivate_qr(i)
    \/ \E i \in 1..MaxRecords, st \in OfficeStatuses, e \in OfficeEdits :
           edit_attendance(i, st, e.modification_reason, e.faculty_id)
    \/ \E img \in images : Upload("s1", img)
    \/ \E n \in RaceNames, r \in Rolls : Lookup("s1", "none", n, r, EdgePlace, TRUE)
    \/ DupCheck("s1", FALSE)
    \/ Insert("s1", FALSE)

SpecOffice == Init /\ [][NextOffice]_vars

(***************************************************************************)
(* The term: the storage working, the clock running over minutes and days, *)
(* a second token issued, and one student session used under two names and *)
(* two roll numbers.                                                       *)
(***************************************************************************)
TermRolls == {<<"7">>, <<"8">>}

NextTerm ==
    \/ \E step \in ClockSteps : Tick(step)
    \/ \E f \in FacultyIds, sub \in Subjects, per \in Periods, a \in Anchors,
          d \in Durations, u \in unused_uuid4(TermTokens) :
           generate_qr_page(f, sub, per, a.lat, a.lon, d, u)
    \/ \E img \in images : Upload("s1", img)
    \/ \E n \in RaceNames, r \in TermRolls :
           Lookup("s1", "none", n, r, EdgePlace, TRUE)
    \/ DupCheck("s1", FALSE)
    \/ Insert("s1", FALSE)

SpecTerm == Init /\ [][NextTerm]_vars

(***************************************************************************)
(* The desk: tokens issued while one student's attempt is under way, the   *)
(* storage working and the clock running over minutes.                     *)
(***************************************************************************)
NextDesk ==
    \/ Tick(JustPastMinDuration)
    \/ \E f \in FacultyIds, sub \in Subjects, per \in Periods, a \in Anchors,
          d \in Durations, u \in unused_uuid4(TermTokens) :
           generate_qr_page(f, sub, per, a.lat, a.lon, d, u)
    \/ \E img \in images : Upload("s1", img)
    \/ \E n \in RaceNames, r \in Rolls : Lookup("s1", "none", n, r, EdgePlace, TRUE)
    \/ DupCheck("s1", FALSE)
    \/ Insert("s1", FALSE)

SpecDesk == Init /\ [][NextDesk]_vars

(***************************************************************************)
(* The staff room: one staff browser session going through login, the      *)
(* pages and logout, issuing tokens on the generate page and editing on    *)
(* the edit page, while a student redeems under two names.  The storage    *)
(* works and the clock stands.                                             *)
(***************************************************************************)
LoginIds == {"ADMIN001", "FAC001", "FAC999"}
SearchNames == {<<>>, <<"a">>, <<"b">>}
AllPages ==
    {"home", "faculty_login", "faculty_dashboard", "admin_dashboard",
     "student_app", "reports"} \cup FacultyPages

NextStaff ==
    \/ \E target \in AllPages : navigate(target)
    \/ \E id \in LoginIds, verified \in BOOLEAN : faculty_login(id, verified)
    \/ logout
    \/ \E n \in SearchNames : search(n)
    \/ \E i \in 1..MaxRecords : select_record(i)
    \/ \E save \in BOOLEAN, st \in Statuses, r \in Reasons :
           submit_edit_form(save, st, r)
    \/ \E sub \in Subjects, per \in Periods, a \in Anchors, d \in Durations,
          u \in fresh_uuid4 :
           /\ staff.rendered = "generate_qr"
           /\ generate_qr_page(staff.faculty_id, sub, per, a.lat, a.lon, d, u)
    \/ \E img \in images : Upload("s1", img)
    \/ \E n \in RaceNames, r \in Rolls : Lookup("s1", "none", n, r, EdgePlace, TRUE)
    \/ DupCheck("s1", FALSE)
    \/ Insert("s1", FALSE)

SpecStaff == Init /\ [][NextStaff]_vars

(***************************************************************************)
(* Issuing alone, while the clock runs: any of three users, both ends of   *)
(* the slider, uuid4() returning a stored id, and the deactivation.        *)
(***************************************************************************)
IssueFaculty == {"FAC001", "FAC002", "ADMIN001"}

NextIssue ==
    \/ \E step \in ClockSteps : Tick(step)
    \/ \E f \in IssueFaculty, sub \in Subjects, per \in Periods, a \in Anchors,
          d \in OfficeDurations, u \in uuid4 :
           generate_qr_page(f, sub, per, a.lat, a.lon, d, u)
    \/ \E i \in 1..MaxTokens : deactivate_qr(i)

SpecIssue == Init /\ [][NextIssue]_vars

(***************************************************************************)
(* The codec alone: a token as generate_qr_page builds it is rendered by   *)
(* generate_qr_code and the image is read back by read_qr_code.            *)
(***************************************************************************)
CodecSubjects ==
    {<<"M">>, <<"D", "B", " ", "2">>, <<Quote, "q", Quote>>,
     <<"a", Backslash, "n">>, <<"x", Newline, "y">>, <<"c", "a", "f", EAcute>>,
     <<"{", ":", ",", "}">>}
CodecPeriods == Periods \cup {<<"P", "e", "r", "i", "o", "d", " ", "8">>}
CodecLatitudes ==
    {Norm(176868, -4), Norm(-335, -1), FZero, Norm(1, -5), Norm(90, 0)}
CodecLongitudes == {Norm(832185, -4), Norm(-12345678, -5)}
CodecDurations == OfficeDurations

CodecTokens ==
    {[qr_id |-> id, subject |-> sub, period |-> per, latitude |-> lat,
      longitude |-> lon, created_at |-> StartTime, expires_at |-> StartTime + d] :
        id \in Uuids, sub \in CodecSubjects, per \in CodecPeriods,
        lat \in CodecLatitudes, lon \in CodecLongitudes, d \in CodecDurations}

\* lines 765-773: the payload dict of a token
TokenItems(t) ==
    QrItems(t.qr_id, t.subject, t.period, t.latitude, t.longitude,
            t.created_at, t.expires_at)

InitCodec ==
    /\ InitApp
    /\ codec \in {[CodecIdle EXCEPT !.pc = "token", !.token = t] : t \in CodecTokens}
    /\ geo = GeoIdle
    /\ staff = NewSession

Encode ==
    /\ codec.pc = "token"
    /\ codec' = [codec EXCEPT !.pc = "encoded",
                              !.img = generate_qr_code(TokenItems(codec.token))]
    /\ UNCHANGED <<appvars, geo, staff>>

Decode ==
    /\ codec.pc = "encoded"
    /\ codec' = [codec EXCEPT !.pc = "decoded", !.payload = read_qr_code(codec.img)]
    /\ UNCHANGED <<appvars, geo, staff>>

NextCodec == Encode \/ Decode

SpecCodec == InitCodec /\ [][NextCodec]_vars

(***************************************************************************)
(* calculate_distance alone, on pairs of places.                           *)
(***************************************************************************)
GeoCoords ==
    {DefaultPlace, FarPlace, EdgePlace, Coord(FZero, FZero),
     Coord(Norm(-335, -1), Norm(-7025, -2)), Coord(Norm(90, 0), FZero),
     Coord(Norm(176868, -4), Norm(-832185, -4)),
     Coord(Norm(-176868, -4), Norm(832185, -4))}

InitGeo ==
    /\ InitApp
    /\ codec = CodecIdle
    /\ geo \in {[GeoIdle EXCEPT !.pc = "args", !.a = a, !.b = b] :
                    a \in GeoCoords, b \in GeoCoords}
    /\ staff = NewSession

MeasureThere ==
    /\ geo.pc = "args"
    /\ geo' = [geo EXCEPT !.pc = "there",
            !.ab = calculate_distance(geo.a.lat, geo.a.lon, geo.b.lat, geo.b.lon)]
    /\ UNCHANGED <<appvars, codec, staff>>

MeasureBack ==
    /\ geo.pc = "there"
    /\ geo' = [geo EXCEPT !.pc = "back",
            !.ba = calculate_distance(geo.b.lat, geo.b.lon, geo.a.lat, geo.a.lon)]
    /\ UNCHANGED <<appvars, codec, staff>>

MeasureSelf ==
    /\ geo.pc = "back"
    /\ geo' = [geo EXCEPT !.pc = "measured",
            !.aa = calculate_distance(geo.a.lat, geo.a.lon, geo.a.lat, geo.a.lon)]
    /\ UNCHANGED <<appvars, codec, staff>>

NextGeo == MeasureThere \/ MeasureBack \/ MeasureSelf

SpecGeo == InitGeo /\ [][NextGeo]_vars

(***************************************************************************)
(* Properties.  A step "ends" a student's attempt when it takes the        *)
(* session to "done"; StorageFailure and ApplicationError are the          *)
(* outcomes of a storage call that raised.                                 *)
(***************************************************************************)

\* the token row a payload names
token_of(qd) ==
    {i \in 1..Len(qr_codes) : VStr(qr_codes[i].qr_id) = qd.d[K_qr_id]}

\* the attendance rows a redemption created under the key the session
\* submits, on the date of now
marked_today(s) ==
    {i \in 1..Len(attendance) :
        /\ attendance[i].marked_by = "student_app"
        /\ attendance[i].student_name = form[s].student_name
        /\ attendance[i].subject = qr_data[s].d[K_subject]
        /\ attendance[i].period = qr_data[s].d[K_period]
        /\ sql_DATE(attendance[i].timestamp) = date_isoformat(now)}

\* the distance between the anchor the payload carries and the place the
\* session submitted
submitted_distance(s) ==
    distance_between(qr_data[s].d[K_latitude].f, qr_data[s].d[K_longitude].f,
                     form[s].student_lat, form[s].student_lon)

\* C1: an attempt made when the current time is later than the decoded
\* token's expires_at ends Expired and writes no attendance record, even
\* when the token is stored active, the name is fresh and the place is
\* within 1000 m (the attempt has come as far as the INSERT).
C1_ExpiredAttemptEndsExpired ==
    [][\A s \in Sessions :
          (/\ pc[s] = "insert" /\ pc'[s] = "done"
           /\ outcome'[s] # "StorageFailure"
           /\ validity_line(qr_data[s], now) = "expired")
          => (outcome'[s] = "Expired" /\ attendance' = attendance)]_vars

\* C2: of two concurrent attempts with the same name, subject, period and
\* date, both within range on an active unexpired token, exactly one ends
\* Accepted and the other AlreadyMarked; never both Accepted.
C2_OneAcceptedOneAlreadyMarked ==
    \A s, t \in Sessions :
        (/\ s # t
         /\ pc[s] = "done" /\ pc[t] = "done"
         /\ form[s].student_name = form[t].student_name
         /\ qr_data[s].d[K_subject] = qr_data[t].d[K_subject]
         /\ qr_data[s].d[K_period] = qr_data[t].d[K_period]
         /\ FLe(submitted_distance(s), FromInt(1000))
         /\ FLe(submitted_distance(t), FromInt(1000)))
        => {outcome[s], outcome[t]} = {"Accepted", "AlreadyMarked"}

\* C3: in every reachable state the attendance table holds at most one
\* record created through redemption with status present for any
\* (name, subject, period, calendar date).
C3_AtMostOnePresentPerKey ==
    \A i, j \in 1..Len(attendance) :
        (/\ i < j
         /\ attendance[i].marked_by = "student_app"
         /\ attendance[j].marked_by = "student_app"
         /\ attendance[i].status = "present"
         /\ attendance[j].status = "present"
         /\ attendance[i].student_name = attendance[j].student_name
         /\ attendance[i].subject = attendance[j].subject
         /\ attendance[i].period = attendance[j].period)
        => sql_DATE(attendance[i].timestamp) # sql_DATE(attendance[j].timestamp)

\* C4: when a redemption has been accepted and the same name, subject and
\* period are submitted again on the same calendar date, no other attempt
\* running, the duplicate check ends the second attempt AlreadyMarked and
\* the attendance records are unchanged by it.
C4_ResubmissionAlreadyMarked ==
    [][\A s \in Sessions :
          (/\ pc[s] = "dupcheck" /\ pc'[s] # "dupcheck"
           /\ outcome'[s] # "StorageFailure"
           /\ marked_today(s) # {})
          => (/\ pc'[s] = "done"
              /\ outcome'[s] = "AlreadyMarked"
              /\ attendance' = attendance)]_vars

C4_Resubmitted ==
    /\ pc["s1"] = "done"
    /\ outcome["s1"] = "AlreadyMarked"
    /\ Len(attendance) = 1
    /\ marked_today("s1") = {1}

\* C5: the geofence boundary is inclusive.  For an unexpired attempt past
\* the lookup and the duplicate check, a computed distance of at most
\* 1000 m goes on to the INSERT and ends Accepted with one record written;
\* a greater distance ends OutOfRange with no record written; either way
\* the distance shown is the computed one, to two decimals.
C5_GeofenceInclusive ==
    [][\A s \in Sessions :
          /\ (/\ pc[s] = "dupcheck" /\ pc'[s] # "dupcheck"
              /\ outcome'[s] \notin {"StorageFailure", "AlreadyMarked"}
              /\ validity_line(qr_data[s], now) # "expired")
             => /\ distance'[s] = submitted_distance(s)
                /\ distance_line'[s] = format_2f(submitted_distance(s))
                /\ attendance' = attendance
                /\ FLe(distance'[s], FromInt(1000)) => pc'[s] = "insert"
                /\ FGt(distance'[s], FromInt(1000))
                      => (pc'[s] = "done" /\ outcome'[s] = "OutOfRange")
          /\ (/\ pc[s] = "insert" /\ pc'[s] # "insert"
              /\ outcome'[s] # "StorageFailure"
              /\ validity_line(qr_data[s], now) # "expired")
             => /\ FLe(distance[s], FromInt(1000))
                /\ pc'[s] = "done" /\ outcome'[s] = "Accepted"
                /\ Len(attendance') = Len(attendance) + 1]_vars

C5_AcceptedOnTheBoundary ==
    /\ pc["s1"] = "done"
    /\ outcome["s1"] = "Accepted"
    /\ distance["s1"] = FromInt(1000)
    /\ distance_line["s1"] = <<"1", "0", "0", "0", ".", "0", "0">>
    /\ validity_line(qr_data["s1"], now) = "valid"
    /\ Len(attendance) = 1

\* C6: an attempt whose qr_id names no stored token, or a stored token
\* with is_active false, ends InvalidOrExpiredToken and writes nothing;
\* the two cases end alike, nothing else the page shows changes.
C6_AbsentOrInactiveIsInvalid ==
    [][\A s \in Sessions :
          (/\ pc[s] = "lookup" /\ pc'[s] # "lookup"
           /\ outcome'[s] \notin {"StorageFailure", "ApplicationError"}
           /\ \A i \in token_of(qr_data[s]) : ~qr_codes[i].is_active)
          => (/\ pc'[s] = "done"
              /\ outcome'[s] = "InvalidOrExpiredToken"
              /\ attendance' = attendance /\ qr_codes' = qr_codes
              /\ distance'[s] = distance[s]
              /\ distance_line'[s] = distance_line[s]
              /\ validity'[s] = validity[s]
              /\ form'[s] = form[s])]_vars

C6_InactiveRejected ==
    /\ pc["s1"] = "done"
    /\ outcome["s1"] = "InvalidOrExpiredToken"
    /\ image["s1"] \in images
    /\ token_of(qr_data["s1"]) # {}
    /\ \A i \in token_of(qr_data["s1"]) : ~qr_codes[i].is_active
    /\ attendance = <<>>

\* C7: the redemption of a stored, unexpired token by a name with no
\* record for that name, subject, period and date, at most 1000 m away,
\* goes on to the INSERT, ends Accepted and adds exactly one record:
\* status present, the name, roll and coordinates submitted, the token's
\* subject, period and anchor, the current timestamp.
C7_AcceptedAddsOneRecord ==
    [][\A s \in Sessions :
          /\ (/\ pc[s] = "dupcheck" /\ pc'[s] # "dupcheck"
              /\ outcome'[s] # "StorageFailure"
              /\ image[s] \in images
              /\ validity_line(qr_data[s], now) = "valid"
              /\ marked_today(s) = {}
              /\ FLe(submitted_distance(s), FromInt(1000)))
             => (pc'[s] = "insert" /\ attendance' = attendance)
          /\ (/\ pc[s] = "insert" /\ pc'[s] # "insert"
              /\ outcome'[s] # "StorageFailure"
              /\ image[s] \in images
              /\ validity_line(qr_data[s], now) = "valid")
             => /\ pc'[s] = "done" /\ outcome'[s] = "Accepted"
                /\ Len(attendance') = Len(attendance) + 1
                /\ SubSeq(attendance', 1, Len(attendance)) = attendance
                /\ \E i \in token_of(qr_data[s]) :
                      attendance'[Len(attendance')] =
                          [student_name |-> form[s].student_name,
                           student_roll |-> form[s].student_roll,
                           subject |-> VStr(qr_codes[i].subject),
                           period |-> VStr(qr_codes[i].period),
                           timestamp |-> isoformat(now),
                           student_latitude |-> form[s].student_lat,
                           student_longitude |-> form[s].student_lon,
                           qr_latitude |-> VNum(qr_codes[i].latitude),
                           qr_longitude |-> VNum(qr_codes[i].longitude),
                           status |-> "present", marked_by |-> "student_app",
                           modified_by |-> "NULL",
                           modification_reason |-> <<>>]]_vars

C7_RecordWritten ==
    /\ pc["s1"] = "done"
    /\ outcome["s1"] = "Accepted"
    /\ image["s1"] \in images
    /\ validity_line(qr_data["s1"], now) = "valid"
    /\ Len(attendance) = 1
    /\ attendance[1].timestamp = isoformat(now)
    /\ attendance[1].student_name = <<"a">>

\* C8: a step of a student's attempt that does not end it Accepted leaves
\* both tables, qr_codes and attendance, as they were; so an attempt that
\* ends Unreadable, InvalidOrExpiredToken, Expired, AlreadyMarked,
\* OutOfRange or StorageFailure has changed neither.
C8_RejectionsChangeNothing ==
    [][(/\ sessvars' # sessvars
        /\ \A s \in Sessions :
              ~(pc[s] = "insert" /\ pc'[s] = "done" /\ outcome'[s] = "Accepted"))
       => (qr_codes' = qr_codes /\ attendance' = attendance)]_vars

C8_FailedCommit ==
    /\ pc["s1"] = "done"
    /\ outcome["s1"] = "StorageFailure"
    /\ FLe(distance["s1"], FromInt(1000)) /\ distance["s1"] # FZero
    /\ Len(qr_codes) = 1
    /\ attendance = <<>>

\* C9: when the image shows no barcode, or its text is not valid JSON, or
\* the decoded object lacks one of qr_id, subject, period, latitude,
\* longitude, created_at, expires_at, decoding yields None and the attempt
\* ends Unreadable: it neither goes on to the lookup nor raises.
C9_MalformedIsUnreadable ==
    \A s \in Sessions :
        (/\ pc[s] # "idle"
         /\ \/ Decoded[image[s]] = None
            \/ /\ Decoded[image[s]].t = "dict"
               /\ ~(QrKeys \subseteq DOMAIN Decoded[image[s]].d))
        => (qr_data[s] = None /\ pc[s] = "done" /\ outcome[s] = "Unreadable")

C11_SymmetricAndZeroOnDiagonal ==
    geo.pc = "measured" => (geo.ab = geo.ba /\ geo.aa = FZero)

C11_MeasuredBothWays ==
    /\ geo.pc = "measured"
    /\ geo.a = DefaultPlace /\ geo.b = FarPlace
    /\ FGt(geo.ab, FromInt(1000))
    /\ geo.ba = geo.ab

\* C12 as stated: for the token anchored at (17.6868, 83.2185), a claimant
\* with no record yet who submits (17.70, 83.23) ends OutOfRange and the
\* distance computed lies between 4000 and 5000 metres.
C12_FarClaimantFourToFiveKm ==
    [][\A s \in Sessions :
          (/\ pc[s] = "dupcheck" /\ pc'[s] # "dupcheck"
           /\ image[s] \in images
           /\ Coord(qr_data[s].d[K_latitude].f, qr_data[s].d[K_longitude].f)
                 = DefaultPlace
           /\ Coord(form[s].student_lat, form[s].student_lon) = FarPlace
           /\ outcome'[s] # "AlreadyMarked")
          => (/\ pc'[s] = "done" /\ outcome'[s] = "OutOfRange"
              /\ FLe(FromInt(4000), distance'[s])
              /\ FLe(distance'[s], FromInt(5000)))]_vars

\* C12 amended: that claimant ends OutOfRange with no record written, and
\* the distance computed lies between 1907 and 1908 metres; the line shown
\* reads 1907.48.
C12_FarClaimantOutOfRange ==
    [][\A s \in Sessions :
          (/\ pc[s] = "dupcheck" /\ pc'[s] # "dupcheck"
           /\ image[s] \in images
           /\ Coord(qr_data[s].d[K_latitude].f, qr_data[s].d[K_longitude].f)
                 = DefaultPlace
           /\ Coord(form[s].student_lat, form[s].student_lon) = FarPlace
           /\ outcome'[s] # "AlreadyMarked")
          => (/\ pc'[s] = "done" /\ outcome'[s] = "OutOfRange"
              /\ attendance' = attendance
              /\ FLe(FromInt(1907), distance'[s])
              /\ FLe(distance'[s], FromInt(1908))
              /\ distance_line'[s] = <<"1", "9", "0", "7", ".", "4", "8">>)]_vars

C12_FarClaimantRejected ==
    /\ pc["s1"] = "done"
    /\ outcome["s1"] = "OutOfRange"
    /\ image["s1"] \in images
    /\ Coord(form["s1"].student_lat, form["s1"].student_lon) = FarPlace
    /\ distance_line["s1"] = <<"1", "9", "0", "7", ".", "4", "8">>
    /\ attendance = <<>>

\* the fields of a token other than its is_active flag
token_fields(row) == [row EXCEPT !.is_active = TRUE]

\* C13: no two stored tokens share a qr_id: a submission whose uuid is
\* already stored ends in the error (the UNIQUE constraint failing) with
\* the store and the rendered images unchanged, and no step changes the
\* fields of a token already stored.
C13_DuplicateIdRejected ==
    [][/\ \A i, j \in 1..Len(qr_codes') :
              i # j => qr_codes'[i].qr_id # qr_codes'[j].qr_id
       /\ Len(qr_codes') >= Len(qr_codes)
       /\ \A i \in 1..Len(qr_codes) :
              token_fields(qr_codes'[i]) = token_fields(qr_codes[i])
       /\ (qr_page' = "IntegrityError" /\ qr_page # "IntegrityError")
             => (qr_codes' = qr_codes /\ images' = images)
       /\ (qr_page' = "QrShown" /\ qr_page # "QrShown")
             => Len(qr_codes') = Len(qr_codes) + 1]_vars

C13_CollisionRefused ==
    /\ qr_page = "IntegrityError"
    /\ Len(qr_codes) = 1
    /\ Cardinality(images) = 1
    /\ qr_codes[1].expires_at = isoformat(StartTime + MinDuration)

\* C14: every attempt (a submission of the form with a name and a roll, on
\* an image a teacher's page rendered) ends in one outcome of the closed set
\* Unreadable, InvalidOrExpiredToken, Expired, AlreadyMarked, OutOfRange,
\* Accepted, StorageFailure; a storage call that raises, whichever it is,
\* ends StorageFailure.
C14_ClosedSetOfOutcomes ==
    \A s \in Sessions :
        (/\ pc[s] = "done"
         /\ image[s] \in images
         /\ outcome[s] \notin {"FormShown", "MissingDetails"})
        => outcome[s] \in Outcomes

\* C15: the checks run in the order Decode, Lookup, ExpiryCheck,
\* DuplicateCheck, DistanceCheck, Commit and the earliest failing one names
\* the outcome: an attempt on an absent or inactive token ends
\* InvalidOrExpiredToken even when past expiry, and an attempt that ends at
\* the duplicate or distance check ends Expired when past expiry, else
\* AlreadyMarked when a record exists even when too far, else OutOfRange.
C15_EarliestFailingStepWins ==
    [][\A s \in Sessions :
          /\ (/\ pc[s] = "lookup" /\ pc'[s] # "lookup"
              /\ outcome'[s] \notin {"StorageFailure", "ApplicationError"}
              /\ \A i \in token_of(qr_data[s]) : ~qr_codes[i].is_active)
             => (pc'[s] = "done" /\ outcome'[s] = "InvalidOrExpiredToken")
          /\ (/\ pc[s] = "dupcheck" /\ pc'[s] = "done"
              /\ outcome'[s] # "StorageFailure")
             => outcome'[s] =
                    IF validity_line(qr_data[s], now) = "expired" THEN "Expired"
                    ELSE IF marked_today(s) # {} THEN "AlreadyMarked"
                    ELSE "OutOfRange"]_vars

\* C16: stored tokens are append-only and redemption never touches them:
\* no step removes a token or changes a stored token's qr_id, subject,
\* period, anchor, created_at or expires_at, and a step of a student's
\* attempt, whatever its outcome, leaves every token as it was, is_active
\* included.
C16_TokensAppendOnly ==
    [][/\ Len(qr_codes') >= Len(qr_codes)
       /\ \A i \in 1..Len(qr_codes) :
              /\ qr_codes'[i].qr_id = qr_codes[i].qr_id
              /\ qr_codes'[i].subject = qr_codes[i].subject
              /\ qr_codes'[i].period = qr_codes[i].period
              /\ qr_codes'[i].latitude = qr_codes[i].latitude
              /\ qr_codes'[i].longitude = qr_codes[i].longitude
              /\ qr_codes'[i].created_at = qr_codes[i].created_at
              /\ qr_codes'[i].expires_at = qr_codes[i].expires_at
       /\ sessvars' # sessvars => qr_codes' = qr_codes]_vars

C16_RedeemedTokenStillActive ==
    /\ pc["s1"] = "done"
    /\ outcome["s1"] = "Accepted"
    /\ Len(attendance) = 1
    /\ token_of(qr_data["s1"]) = {1}
    /\ qr_codes[1].is_active

\* C17: for every Accepted redemption the anchor written to the record, and
\* the anchor the distance was computed from, are the coordinates the token
\* store holds for the redeemed qr_id, whatever payload was presented.
C17_AnchorFromTheStore ==
    [][\A s \in Sessions :
          (pc[s] = "insert" /\ pc'[s] = "done" /\ outcome'[s] = "Accepted")
          => \E i \in token_of(qr_data[s]) :
                /\ attendance'[Len(attendance')].qr_latitude
                      = VNum(qr_codes[i].latitude)
                /\ attendance'[Len(attendance')].qr_longitude
                      = VNum(qr_codes[i].longitude)
                /\ distance[s] =
                      distance_between(qr_codes[i].latitude, qr_codes[i].longitude,
                                       form[s].student_lat, form[s].student_lon)]_vars

\* C18: every stored token has expires_at later than created_at, by the
\* duration requested when it was issued, which is at least 5 and at most
\* 120 minutes.
C18_ExpiresAfterIssue ==
    \A i \in 1..Len(qr_codes) :
        /\ fromisoformat(qr_codes[i].created_at).ok
        /\ fromisoformat(qr_codes[i].expires_at).ok
        /\ fromisoformat(qr_codes[i].expires_at).t
              > fromisoformat(qr_codes[i].created_at).t
        /\ fromisoformat(qr_codes[i].expires_at).t
              - fromisoformat(qr_codes[i].created_at).t \in 5..120

C18_IssuedForTwoHours ==
    /\ Len(qr_codes) = 1
    /\ now > StartTime
    /\ qr_codes[1].created_at = isoformat(now)
    /\ qr_codes[1].expires_at = isoformat(now + 120)
    /\ qr_page = "QrShown"

\* a record with its status and audit fields blanked
record_frame(row) ==
    [row EXCEPT !.status = "", !.modified_by = "", !.modification_reason = <<>>]

\* C19: a status override changes only status, modified_by and
\* modification_reason of the one selected record and sets status to
\* present, absent or late; every other field of it and every other record
\* stay as they were, and no step removes a record.
C19_OverrideTouchesOneRecord ==
    [][/\ Len(attendance') >= Len(attendance)
       /\ \A i \in 1..Len(attendance) :
              record_frame(attendance'[i]) = record_frame(attendance[i])
       /\ Cardinality({i \in 1..Len(attendance) : attendance'[i] # attendance[i]})
              <= 1
       /\ \A i \in 1..Len(attendance') :
              attendance'[i].status \in {"present", "absent", "late"}]_vars

C19_OneOfTwoOverridden ==
    /\ Len(attendance) = 2
    /\ attendance[1].status = "present" /\ attendance[1].modified_by = "NULL"
    /\ attendance[2].status = "late" /\ attendance[2].modified_by = "ADMIN001"
    /\ attendance[2].modification_reason = <<"t">>
    /\ attendance[2].marked_by = "student_app"

\* the audit entry a record holds: who overrode it and why
audit_entry(row) ==
    [modified_by |-> row.modified_by, modification_reason |-> row.modification_reason]

\* C20: the audit fields are append-only: once a record carries the
\* modifier and reason of an override, a later override of the same record
\* leaves them retrievable from the attendance table. The table keeps one
\* modified_by and one modification_reason per record and nothing else about
\* overrides, so they are retrievable exactly when the record still holds them.
C20_AuditFieldsAppendOnly ==
    [][\A i \in 1..Len(attendance) :
          attendance[i].modified_by # "NULL"
              => audit_entry(attendance'[i]) = audit_entry(attendance[i])]_vars

\* what the duplicate check may depend on: of a record, and of the attempt
\* of a session
record_key(row) ==
    <<row.student_name, row.subject, row.period, sql_DATE(row.timestamp)>>

attempt_key(s) ==
    <<form[s].student_name, qr_data[s].d[K_subject], qr_data[s].d[K_period],
      date_isoformat(now)>>

\* C21: the duplicate check depends only on (student_name, subject, period,
\* today's date): with the storage working, an attempt ends AlreadyMarked
\* at the duplicate check exactly when a record has the attempt's key,
\* whatever token the attempt presents and whatever roll number it submits
\* or the records hold.
C21_DuplicateCheckByKey ==
    [][\A s \in Sessions :
          (pc[s] = "dupcheck" /\ pc'[s] # "dupcheck")
          => ((pc'[s] = "done" /\ outcome'[s] = "AlreadyMarked")
                <=> \E i \in 1..Len(attendance) :
                        record_key(attendance[i]) = attempt_key(s))]_vars

\* the first student, marked with the first token, is refused with the
\* second, issued later; another name with the same roll number was accepted
C21_SecondTokenAlreadyMarked ==
    /\ Len(qr_codes) = 2 /\ Len(attendance) = 2
    /\ fromisoformat(attendance[1].timestamp).t
           < fromisoformat(qr_codes[2].created_at).t
    /\ attendance[1].student_name = <<"a">>
    /\ attendance[2].student_name = <<"b">>
    /\ attendance[2].student_roll = attendance[1].student_roll
    /\ record_key(attendance[2]) = <<(<<"b">>)>> \o Tail(record_key(attendance[1]))
    /\ pc["s1"] = "done" /\ outcome["s1"] = "AlreadyMarked"
    /\ qr_data["s1"].d[K_qr_id] = VStr(qr_codes[2].qr_id)
    /\ form["s1"].student_name = <<"a">>

\* what the next statement of a session's attempt can do with the inputs
\* name and roll: where the run goes, what it shows, whether it writes
attempt_results(s, name, roll) ==
    {r \in {"dupcheck", "insert", "done"}
            \X {"", "InvalidOrExpiredToken", "MissingDetails", "AlreadyMarked",
                "OutOfRange", "Accepted"}
            \X BOOLEAN :
        ENABLED (/\ \/ Lookup(s, "none", name, roll, EdgePlace, TRUE)
                    \/ DupCheck(s, FALSE)
                    \/ Insert(s, FALSE)
                 /\ pc'[s] = r[1]
                 /\ outcome'[s] = r[2]
                 /\ (attendance' # attendance) = r[3])}

\* what a submission of the issuing form can do when uuid4() returns uuid
issue_results(uuid) ==
    {r \in {"QrShown", "IntegrityError"} \X BOOLEAN :
        ENABLED (/\ \E f \in FacultyIds, sub \in Subjects, per \in Periods,
                       a \in Anchors, d \in Durations :
                        generate_qr_page(f, sub, per, a.lat, a.lon, d, uuid)
                 /\ qr_page' = r[1]
                 /\ (Len(qr_codes') = Len(qr_codes) + 1) = r[2])}

\* C22: issuance and redemption are independent.  A submission of the
\* issuing form leaves, for every attempt on a stored token, what each of
\* its remaining statements can do and the record it would write as they
\* were; a statement of an attempt leaves what an issuance can do as it was.
C22_IssuanceAndRedemptionIndependent ==
    [][/\ (qr_page' # qr_page \/ qr_codes' # qr_codes)
          => \A s \in {"s1"} :
                (pc[s] \in {"lookup", "dupcheck", "insert"}
                    /\ stored_qr(qr_data[s].d[K_qr_id]) # {})
                => /\ \A n \in RaceNames, r \in Rolls :
                          attempt_results(s, n, r)' = attempt_results(s, n, r)
                   /\ attendance_row(s, qr_data[s].d)'
                          = attendance_row(s, qr_data[s].d)
       /\ (pc' # pc)
          => \A n \in 1..TermTokens :
                issue_results(Uuid(n))' = issue_results(Uuid(n))]_vars

\* the second token was issued while an attempt on the first was between
\* its upload, made before the first expired, and its INSERT
C22_IssuedDuringAttempt ==
    /\ Len(qr_codes) = 2
    /\ pc["s1"] = "insert"
    /\ qr_data["s1"].d[K_qr_id] = VStr(qr_codes[1].qr_id)
    /\ validity["s1"] = "valid"
    /\ fromisoformat(qr_codes[2].created_at).t
           > fromisoformat(qr_codes[1].expires_at).t

\* the records of the attempt's key that an override has set to absent or late
overridden_today(s) ==
    {i \in marked_today(s) :
        /\ attendance[i].status \in {"absent", "late"}
        /\ attendance[i].modified_by # "NULL"}

\* C23: the duplicate check ignores the status.  When a record created by a
\* redemption has been overridden to absent or late, a further attempt on
\* the same day with the same name, subject and period ends AlreadyMarked
\* at the duplicate check and the attendance records are unchanged by it.
C23_OverriddenRecordStillBlocks ==
    [][\A s \in Sessions :
          (/\ pc[s] = "dupcheck" /\ pc'[s] # "dupcheck"
           /\ overridden_today(s) # {})
          => (/\ pc'[s] = "done"
              /\ outcome'[s] = "AlreadyMarked"
              /\ attendance' = attendance)]_vars

\* the only record of the key was set to late by the administrator, and the
\* student's further attempt stands at its duplicate check
C23_ResubmittedAfterOverride ==
    /\ pc["s1"] = "dupcheck"
    /\ Len(attendance) = 1
    /\ overridden_today("s1") = {1}
    /\ attendance[1].status = "late"
    /\ attendance[1].modified_by = "ADMIN001"

\* the records with the attempt's name, subject and period
marked_ever(s) ==
    {i \in 1..Len(attendance) :
        /\ attendance[i].student_name = form[s].student_name
        /\ attendance[i].subject = qr_data[s].d[K_subject]
        /\ attendance[i].period = qr_data[s].d[K_period]}

\* all of them are from calendar dates before today's
marked_before_today(s) ==
    /\ marked_ever(s) # {}
    /\ \A i \in marked_ever(s) :
          fromisoformat(attendance[i].timestamp).t \div MinutesPerDay
              < now \div MinutesPerDay

\* C24: duplicate suppression is scoped to the calendar date of the
\* attempt.  With the storage working and the token unexpired, an attempt
\* whose name, subject and period are on records of earlier dates only is
\* not AlreadyMarked: within the geofence it goes on to the INSERT and ends
\* Accepted with one more record.
C24_EarlierDateDoesNotBlock ==
    [][\A s \in Sessions :
          /\ (/\ pc[s] = "dupcheck" /\ pc'[s] # "dupcheck"
              /\ marked_before_today(s)
              /\ validity_line(qr_data[s], now) # "expired")
             => /\ outcome'[s] # "AlreadyMarked"
                /\ within_geofence(submitted_distance(s)) => pc'[s] = "insert"
          /\ (/\ pc[s] = "insert" /\ pc'[s] # "insert"
              /\ marked_before_today(s)
              /\ validity_line(qr_data[s], now) # "expired")
             => /\ pc'[s] = "done" /\ outcome'[s] = "Accepted"
                /\ Len(attendance') = Len(attendance) + 1]_vars

\* the student marked yesterday is accepted today with a token issued today
C24_AcceptedAgainNextDay ==
    /\ Len(attendance) = 2 /\ Len(qr_codes) = 2
    /\ pc["s1"] = "done" /\ outcome["s1"] = "Accepted"
    /\ marked_ever("s1") = {1, 2}
    /\ sql_DATE(attendance[1].timestamp) = date_isoformat(StartTime)
    /\ sql_DATE(attendance[2].timestamp) = date_isoformat(StartTime + MinutesPerDay)
    /\ qr_data["s1"].d[K_qr_id] = VStr(qr_codes[2].qr_id)
    /\ qr_codes[2].created_at = attendance[2].timestamp

\* the payload read from a rendered file carries exactly the fields of the row
payload_of_row(qd, row) ==
    /\ qd.t = "dict"
    /\ DOMAIN qd.d = QrKeys
    /\ qd.d[K_qr_id] = VStr(row.qr_id)
    /\ qd.d[K_subject] = VStr(row.subject)
    /\ qd.d[K_period] = VStr(row.period)
    /\ qd.d[K_latitude] = VNum(row.latitude)
    /\ qd.d[K_longitude] = VNum(row.longitude)
    /\ qd.d[K_created_at] = VStr(row.created_at)
    /\ qd.d[K_expires_at] = VStr(row.expires_at)

\* C25: every code that is rendered refers to a stored token with the same
\* fields.  A step that renders a code has stored its token in the same
\* submission, with is_active set; and at every step the payload read from
\* each rendered file has the qr_id, subject, period, latitude, longitude,
\* created_at and expires_at of a stored row.
C25_RenderedCodeIsStored ==
    [][/\ \A f \in images' :
              \E i \in 1..Len(qr_codes') : payload_of_row(Decoded[f], qr_codes'[i])
       /\ \A f \in images' \ images :
              /\ qr_page' = "QrShown"
              /\ Len(qr_codes') = Len(qr_codes) + 1
              /\ qr_codes'[Len(qr_codes')].is_active
              /\ payload_of_row(Decoded[f], qr_codes'[Len(qr_codes')])]_vars

\* the administrator's two-hour token, issued after the clock moved, is
\* stored and its code rendered
C25_CodeShownForStoredToken ==
    /\ qr_page = "QrShown"
    /\ Len(qr_codes) = 1 /\ Cardinality(images) = 1
    /\ qr_codes[1].created_by = "ADMIN001"
    /\ qr_codes[1].is_active
    /\ qr_codes[1].created_at = isoformat(StartTime + JustPastMinDuration)
    /\ \A f \in images :
          /\ payload_of_row(Decoded[f], qr_codes[1])
          /\ Decoded[f].d[K_expires_at]
                = VStr(isoformat(StartTime + JustPastMinDuration + MaxDuration))

\* the faculty identity in a session state
identity(ss) ==
    <<ss.faculty_logged_in, ss.faculty_id, ss.faculty_name, ss.faculty_role,
      ss.faculty_department>>

\* a session state as main() can find it: any page name, logged in or not,
\* any role
requested(page, logged_in, role) ==
    [NewSession EXCEPT !.page = page, !.faculty_logged_in = logged_in,
                       !.faculty_role = role]

\* C26: a faculty page (faculty_dashboard, generate_qr, view_attendance,
\* edit_attendance, analytics) is rendered only while faculty_logged_in is
\* true, and admin_dashboard only while the role is admin; any other
\* request is redirected to home; a logout leaves no faculty identity in
\* the session.  The first two hold of what every step renders and of
\* main() on every session state; the redirect holds of main() on every
\* session state.
C26_PagesBehindLogin ==
    [][/\ staff'.rendered \in FacultyPages \cup {"faculty_dashboard"}
             => staff'.faculty_logged_in
       /\ staff'.rendered = "admin_dashboard"
             => (staff'.faculty_logged_in /\ staff'.faculty_role = "admin")
       /\ (staff.faculty_logged_in /\ ~staff'.faculty_logged_in)
             => /\ identity(staff') = <<FALSE, "", "", "", "">>
                /\ staff'.page = "home" /\ staff'.rendered = "home"
       /\ \A page \in AllPages, logged_in \in BOOLEAN,
             role \in {"", "faculty", "admin"} :
              LET shown == main(requested(page, logged_in, role))
              IN  /\ shown.rendered \in FacultyPages \cup {"faculty_dashboard"}
                        => logged_in
                  /\ shown.rendered = "admin_dashboard"
                        => (logged_in /\ role = "admin")
                  /\ shown.rendered \in {page, "home"}
                  /\ shown.rendered # page
                        => (shown.page = "home" /\ shown.rendered = "home")]_vars

\* a session that was logged in, chose a record on the edit page and logged
\* out: home is rendered and no identity is left
C26_LoggedOut ==
    /\ staff.edit_record_id # 0
    /\ staff.rendered = "home" /\ staff.page = "home"
    /\ identity(staff) = <<FALSE, "", "", "", "">>

\* texts a student can type into the name and roll boxes
TypedTexts == {<<>>, <<" ">>, <<" ", " ">>, <<"a">>, <<" ", "a">>}

\* empty or only whitespace
blank(text) == \A i \in 1..Len(text) : text[i] = " "

\* C27: a submission whose name or roll number is empty or only whitespace
\* writes no attendance record and runs neither the duplicate check nor the
\* distance check: whatever else is submitted and whether or not the
\* storage works, the run ends at the lookup with attendance and the
\* distance line as they were; and a run that stands at the duplicate check
\* or at the INSERT has a name and a roll number that are not blank.
C27_BlankDetailsWriteNothing ==
    \A s \in Sessions :
        /\ pc[s] = "lookup"
              => \A n \in TypedTexts, r \in TypedTexts :
                    (blank(n) \/ blank(r))
                    => \A fault \in {"none", "connect", "execute"}, p \in Places :
                          ~ ENABLED (/\ Lookup(s, fault, n, r, p, TRUE)
                                     /\ ~ (/\ pc'[s] = "done"
                                           /\ outcome'[s] \notin {"", "Accepted",
                                                 "AlreadyMarked", "OutOfRange"}
                                           /\ attendance' = attendance
                                           /\ distance' = distance
                                           /\ distance_line' = distance_line))
        /\ pc[s] \in {"dupcheck", "insert"}
              => (~ blank(form[s].student_name) /\ ~ blank(form[s].student_roll))

\* a submission with a blank name was refused after another had been accepted
C27_BlankNameRefused ==
    /\ pc["s1"] = "done" /\ outcome["s1"] = "MissingDetails"
    /\ Len(attendance) = 1
    /\ form["s1"] = NoForm
    /\ distance_line["s1"] = <<>>

\* C28: the record selected for editing belongs to the current search
\* results: after every run of the edit page (one that rendered it, or one
\* that ended in the error page), a selection held in the session is a
\* record of the results of the search as it then stands.
C28_SelectionWithinResults ==
    (staff.rendered \in {"edit_attendance", "ApplicationError"}
        /\ staff.edit_record_id # 0)
    => staff.edit_record_id \in search_results(staff.search_name)

====
